---------------------------- MODULE Spec2Model ----------------------------
(***************************************************************************)
(* A model of the Aurora compiler front end (pliduino/aurora-compiler):    *)
(* the lexer (src/lexer.rs), the parser (src/parser.rs), the IR generator  *)
(* (src/gen.rs) and the top-level driver loop (src/main.rs).               *)
(*                                                                         *)
(* Bytes are one-character strings, a byte string is a sequence of them.   *)
(* A Result<T> is a record [ok |-> TRUE, val |-> v] or                     *)
(* [ok |-> FALSE, err |-> e].  A panic (unwrap on None, unimplemented!,    *)
(* todo!) is the error value Panic(..): the process aborts there.          *)
(***************************************************************************)
EXTENDS Integers, Sequences, FiniteSets, TLC

VARIABLES
    \* ---- Lexer<R> (src/lexer.rs:11-16) and the byte source it reads
    input,      \* the bytes of the reader, fixed for one run
    bytes,      \* Peekable<Bytes<R>>: the number of bytes consumed so far
    lookahead,  \* VecDeque<Token>
    line,       \* usize
    pos,        \* usize
    \* ---- observation of the calls made on the lexer
    ret,        \* the last call: [op, dist, res]
    out,        \* the tokens next_token() has returned, up to the first Eof
    promised,   \* peek results still owed: [n |-> calls to go, tok |-> token]
    kept,       \* every peek result that fell due was the token next_token() returned
    eofSeen,    \* next_token() has returned Eof
    calls,      \* the number of next_token() calls that returned a token or an error, not Eof
    \* ---- Parser<R> (src/parser.rs:10-14); its lexer is the one above
    type_map,   \* HashMap<String, type>
    \* ---- Generator (src/gen.rs:61-66)
    functions,  \* HashMap<String, CompiledFunction>
    module,     \* ObjectModule: functions declared and defined
    variable_builder,   \* VariableBuilder.index
    \* ---- the item at hand
    ast,        \* the expression or function parsed or to lower: <<>> or <<node>>
    builder,    \* the function generator of the last lowering
    report,     \* the result of the last operation: [op, res]
    status      \* of main: "running", "finished", "failed" or "aborted"

lexVars == <<input, bytes, lookahead, line, pos>>

obsVars == <<ret, out, promised, kept, eofSeen, calls>>

genVars == <<functions, module, variable_builder>>

itemVars == <<ast, builder, report, status>>

vars == <<lexVars, obsVars, type_map, genVars, itemVars>>

-----------------------------------------------------------------------------
(* Bounds of the model *)

\* longest byte string enumerated exhaustively over LexAlphabet
MaxInputLen == 3
\* largest distance handed to peek()
MaxDist == 2
\* most operators in an expression enumerated exhaustively
MaxOps == 3
\* most parameters of a declared callee
MaxParams == 2
\* most arguments of a call lowered
MaxArgs == 2
\* most top-level items in a program
MaxItems == 2
\* most calls of the generator in a run
MaxCalls == 3
\* most statements of a function body under test
MaxStatements == 3

-----------------------------------------------------------------------------
(* Result<T> *)

Ok(v) == [ok |-> TRUE, val |-> v]
Err(e) == [ok |-> FALSE, err |-> e]

\* enum Error (src/error.rs:15-30); payloads are carried in val
Error(kind, val) == [kind |-> kind, val |-> val]

-----------------------------------------------------------------------------
(* Token (src/lexer.rs:177-208) *)

Tok(kind) == [kind |-> kind, val |-> <<>>]
Eof == Tok("Eof")
Identifier(id) == [kind |-> "Identifier", val |-> id]
Integer(i) == [kind |-> "Integer", val |-> i]
Float(f) == [kind |-> "Float", val |-> f]

-----------------------------------------------------------------------------
(* Character classes *)

Lower == {"a","b","c","d","e","f","g","h","i","j","k","l","m",
          "n","o","p","q","r","s","t","u","v","w","x","y","z"}
Upper == {"A","B","C","D","E","F","G","H","I","J","K","L","M",
          "N","O","P","Q","R","S","T","U","V","W","X","Y","Z"}
AsciiDigit == {"0","1","2","3","4","5","6","7","8","9"}

\* char::is_ascii_alphabetic, taken for is_ascii_alphanumeric
is_ascii_alphabetic(c) == c \in Lower \cup Upper

\* char::is_ascii_alphanumeric
is_ascii_alphanumeric(c) == c \in Lower \cup Upper \cup AsciiDigit

\* char::is_numeric on `byte as char`: the ASCII digits and the Latin-1
\* characters of category No (superscript 2, 3, 1 and the fractions),
\* named here by their byte value.
Latin1Numeric == {"0xB2", "0xB3", "0xB9", "0xBC", "0xBD", "0xBE"}
is_numeric(c) == c \in AsciiDigit \cup Latin1Numeric

-----------------------------------------------------------------------------
(* str::parse::<i64>() and str::parse::<f64>() *)

RECURSIVE StripLeadingZeros(_)
StripLeadingZeros(s) ==
    IF Len(s) > 1 /\ Head(s) = "0" THEN StripLeadingZeros(Tail(s)) ELSE s

RECURSIVE StripTrailingZeros(_)
StripTrailingZeros(s) ==
    IF Len(s) > 0 /\ s[Len(s)] = "0"
    THEN StripTrailingZeros(SubSeq(s, 1, Len(s) - 1)) ELSE s

I64Max == <<"9","2","2","3","3","7","2","0","3","6","8","5","4","7","7","5","8","0","7">>

DigitValue(c) == CHOOSE n \in 0..9 : <<"0","1","2","3","4","5","6","7","8","9">>[n + 1] = c

\* a and b are digit strings of the same length: a > b as numbers
RECURSIVE DigitsGreater(_, _)
DigitsGreater(a, b) ==
    IF Len(a) = 0 THEN FALSE
    ELSE IF Head(a) # Head(b) THEN DigitValue(Head(a)) > DigitValue(Head(b))
    ELSE DigitsGreater(Tail(a), Tail(b))

\* The value of an i64 is written as its canonical decimal numeral (no
\* leading zero), so that "007" and "7" parse to the same value.
ParseI64(s) ==
    IF Len(s) = 0 THEN Err(Error("ParseInt", "Empty"))
    ELSE IF \E i \in 1..Len(s) : s[i] \notin AsciiDigit
    THEN Err(Error("ParseInt", "InvalidDigit"))
    ELSE LET n == StripLeadingZeros(s) IN
         IF Len(n) > Len(I64Max) \/ (Len(n) = Len(I64Max) /\ DigitsGreater(n, I64Max))
         THEN Err(Error("ParseInt", "PosOverflow"))
         ELSE Ok(n)

\* format!("{}.{}", integral, decimals).parse::<f64>(): the value is written
\* as its canonical decimal numeral (integral part without leading zeros, a
\* dot, the fraction without trailing zeros), so that "1.50" and "01.5" parse
\* to the same value; "." alone is not a number.
ParseF64(integral, decimals) ==
    IF (Len(integral) = 0 /\ Len(decimals) = 0)
       \/ (\E i \in 1..Len(integral) : integral[i] \notin AsciiDigit)
       \/ (\E i \in 1..Len(decimals) : decimals[i] \notin AsciiDigit)
    THEN Err(Error("ParseFloat", "Invalid"))
    ELSE Ok((IF Len(integral) = 0 THEN <<"0">> ELSE StripLeadingZeros(integral))
            \o <<".">> \o StripTrailingZeros(decimals))

-----------------------------------------------------------------------------
(* The lexer.  A lexer state L is [bytes, lookahead, line, pos]; every     *)
(* method returns [L |-> the state it leaves, res |-> its Result].         *)

Lexer == [bytes |-> bytes, lookahead |-> lookahead, line |-> line, pos |-> pos]

Ret(L, res) == [L |-> L, res |-> res]

\* self.bytes.next()
bytes_next(L) == [L EXCEPT !.bytes = IF @ < Len(input) THEN @ + 1 ELSE @]

\* fn peek_char: the reader of a finite byte string never returns Err
peek_char(L) ==
    IF L.bytes < Len(input)
    THEN Ret([L EXCEPT !.pos = @ + 1], <<input[L.bytes + 1]>>)
    ELSE Ret(L, <<>>)

\* the single-byte tokens of next_token_no_check
Punctuation ==
    [b \in {"<", "+", "-", "*", ";", ",", "(", ")", "{", "}", "=", ":"} |->
        CASE b = "<" -> Tok("LessThan")
          [] b = "+" -> Tok("Plus")
          [] b = "-" -> Tok("Minus")
          [] b = "*" -> Tok("Star")
          [] b = ";" -> Tok("SemiColon")
          [] b = "," -> Tok("Comma")
          [] b = "(" -> Tok("OpenParen")
          [] b = ")" -> Tok("CloseParen")
          [] b = "{" -> Tok("OpenBracket")
          [] b = "}" -> Tok("CloseBracket")
          [] b = "=" -> Tok("Equal")
          [] b = ":" -> Tok("Colon")]

\* the match on identifier.as_str() in fn identifier
KeywordOrIdentifier(identifier) ==
    CASE identifier = <<"f","n">> -> Tok("Def")
      [] identifier = <<"e","x","t","e","r","n">> -> Tok("Extern")
      [] identifier = <<"r","e","t","u","r","n">> -> Tok("Return")
      [] identifier = <<"l","e","t">> -> Tok("Let")
      [] OTHER -> Identifier(identifier)

\* the loop of fn identifier
RECURSIVE identifier_loop(_, _)
identifier_loop(L, identifier) ==
    LET p == peek_char(L) IN
    IF Len(p.res) = 1 /\ (is_ascii_alphanumeric(p.res[1]) \/ p.res[1] = "_")
    THEN identifier_loop(bytes_next(p.L), Append(identifier, p.res[1]))
    ELSE Ret(p.L, identifier)

identifier(L) ==
    LET r == identifier_loop(L, <<>>) IN
    Ret(r.L, Ok(KeywordOrIdentifier(r.res)))

\* fn digits
RECURSIVE digits_loop(_, _)
digits_loop(L, buffer) ==
    LET p == peek_char(L) IN
    IF Len(p.res) = 1 /\ is_numeric(p.res[1])
    THEN digits_loop(bytes_next(p.L), Append(buffer, p.res[1]))
    ELSE Ret(p.L, buffer)

digits(L) == digits_loop(L, <<>>)

\* fn number
number(L) ==
    LET integral == digits(L)
        p == peek_char(integral.L)
    IN  IF p.res = <<".">>
        THEN LET decimals == digits(bytes_next(p.L))
                 f == ParseF64(integral.res, decimals.res)
             IN  Ret(decimals.L, IF f.ok THEN Ok(Float(f.val)) ELSE f)
        ELSE LET i == ParseI64(integral.res)
             IN  Ret(p.L, IF i.ok THEN Ok(Integer(i.val)) ELSE i)

RECURSIVE next_token_no_check(_)
RECURSIVE next_token(_)
RECURSIVE comment(_)

\* fn next_token_no_check
next_token_no_check(L) ==
    IF L.bytes < Len(input)
    THEN LET byte == input[L.bytes + 1]
             L1 == [L EXCEPT !.pos = @ + 1]
         IN  CASE byte \in {" ", "\r", "\t"} ->
                    next_token_no_check(bytes_next(L1))
               [] byte = "\n" ->
                    next_token_no_check(
                        bytes_next([L1 EXCEPT !.line = @ + 1, !.pos = 1]))
               [] byte \in Lower \cup Upper \cup {"_"} -> identifier(L1)
               [] byte \in AsciiDigit \cup {"."} -> number(L1)
               [] byte = "#" -> comment(L1)
               [] OTHER ->
                    Ret(bytes_next(L1),
                        IF byte \in DOMAIN Punctuation
                        THEN Ok(Punctuation[byte])
                        ELSE Err(Error("UnknownChar", byte)))
    ELSE Ret(L, Ok(Eof))

\* fn next_token
next_token(L) ==
    IF Len(L.lookahead) > 0
    THEN Ret([L EXCEPT !.lookahead = Tail(@)], Ok(Head(L.lookahead)))
    ELSE next_token_no_check(L)

\* fn comment with `return Ok(Token::Eof)` in place of `break` at the newline
RECURSIVE comment_stops_at_newline(_)
comment_stops_at_newline(L) ==
    LET p == peek_char(L) IN
    IF Len(p.res) = 1
    THEN IF p.res[1] = "\n"
         THEN Ret(bytes_next(p.L), Ok(Eof))
         ELSE comment_stops_at_newline(bytes_next(p.L))
    ELSE Ret(p.L, Ok(Eof))

\* fn comment
comment(L) ==
    LET p == peek_char(L) IN
    IF Len(p.res) = 1
    THEN IF p.res[1] = "\n"
         THEN next_token(bytes_next(p.L))
         ELSE comment(bytes_next(p.L))
    ELSE Ret(p.L, Ok(Eof))

\* fn peek
RECURSIVE peek(_, _)
peek(L, dist) ==
    IF Len(L.lookahead) >= dist + 1
    THEN Ret(L, Ok(L.lookahead[dist + 1]))
    ELSE LET r == next_token_no_check(L) IN
         IF r.res.ok
         THEN peek([r.L EXCEPT !.lookahead = Append(@, r.res.val)], dist)
         ELSE r

-----------------------------------------------------------------------------
(* Types (src/typing.rs).  A type is written by its display name.          *)

ANY == "any"
VOID == "void"
BOOL == "bool"
I8 == "i8"
I16 == "i16"
I32 == "i32"
I64 == "i64"
F32 == "f32"
F64 == "f64"

\* the panic of unimplemented!(), todo!(), unwrap() and expect()
Panic(msg) == Err(Error("Panic", msg))

\* AuroraType::from_string (get_const_str_from_string in the parser)
from_string(str) ==
    CASE str = <<"v","o","i","d">> -> Ok(VOID)
      [] str = <<"b","o","o","l">> -> Ok(BOOL)
      [] str = <<"i","8">> -> Ok(I8)
      [] str = <<"i","1","6">> -> Ok(I16)
      [] str = <<"i","3","2">> -> Ok(I32)
      [] str = <<"i","6","4">> -> Ok(I64)
      [] str = <<"f","3","2">> -> Ok(F32)
      [] str = <<"f","6","4">> -> Ok(F64)
      [] OTHER -> Panic("not implemented")

-----------------------------------------------------------------------------
(* The AST (src/ast.rs).  An Expr is [kind, args, type_]; args holds the   *)
(* fields of the ExprType variant in order.                                *)

Expr(kind, args, type_) == [kind |-> kind, args |-> args, type_ |-> type_]

Parameter(name, type_) == [name |-> name, type_ |-> type_]

Prototype(function_name, parameters, return_type) ==
    [function_name |-> function_name, parameters |-> parameters,
     return_type |-> return_type]

Function(prototype, body) == [prototype |-> prototype, body |-> body]

-----------------------------------------------------------------------------
(* The parser (src/parser.rs).  A parser state P is [type_map, lexer];     *)
(* every method returns [P |-> the state it leaves, res |-> its Result].   *)

PRet(P, res) == [P |-> P, res |-> res]

\* HashMap::insert and HashMap::remove
MapInsert(map, key, value) ==
    [k \in DOMAIN map \cup {key} |-> IF k = key THEN value ELSE map[k]]

MapRemove(map, key) == [k \in DOMAIN map \ {key} |-> map[k]]

EmptyMap == [k \in {} |-> k]

\* Parser::new with * given the precedence of + and -
bin_precedence_flat ==
    [op \in {"LessThan", "Plus", "Minus", "Times"} |->
        CASE op = "LessThan" -> 10
          [] op = "Plus" -> 20
          [] op = "Minus" -> 20
          [] op = "Times" -> 20]

\* Parser::new: bin_precedence
bin_precedence ==
    [op \in {"LessThan", "Plus", "Minus", "Times"} |->
        CASE op = "LessThan" -> 10
          [] op = "Plus" -> 20
          [] op = "Minus" -> 20
          [] op = "Times" -> 40]

\* let x = v; K(x): v is evaluated once
With(v, K(_)) == CHOOSE y \in { K(x) : x \in {v} } : TRUE

\* let x = r?; K(x): the error of r is returned, with the state r left
Try(r, K(_)) == With(r, LAMBDA x : IF x.res.ok THEN K(x) ELSE x)

\* A method of the parser is called through the one recursive operator Parser_call,
\* method by method: self_eat(P, token) is self.eat(token) in the state P.
RECURSIVE Parser_call(_, _, _)

self_lexer_next_token(P) == Parser_call("lexer_next_token", P, <<>>)

self_lexer_peek(P, dist) == Parser_call("lexer_peek", P, <<dist>>)

self_eat(P, token) == Parser_call("eat", P, <<token>>)

self_parser_identifier(P) == Parser_call("parser_identifier", P, <<>>)

self_parameters_loop(P, params, accept_more) == Parser_call("parameters_loop", P, <<params, accept_more>>)

self_parameters(P) == Parser_call("parameters", P, <<>>)

self_return_type(P) == Parser_call("return_type", P, <<>>)

self_prototype(P) == Parser_call("prototype", P, <<>>)

self_extern_(P) == Parser_call("extern_", P, <<>>)

self_binary_op(P) == Parser_call("binary_op", P, <<>>)

self_precedence(P, op) == Parser_call("precedence", P, <<op>>)

self_expr(P) == Parser_call("expr", P, <<>>)

self_primary(P) == Parser_call("primary", P, <<>>)

self_args_loop(P, pushed) == Parser_call("args_loop", P, <<pushed>>)

self_args(P) == Parser_call("args", P, <<>>)

self_ident_expr(P) == Parser_call("ident_expr", P, <<>>)

self_right_operand(P, token_precedence, right) == Parser_call("right_operand", P, <<token_precedence, right>>)

self_binary_right(P, expr_precedence, left) == Parser_call("binary_right", P, <<expr_precedence, left>>)

self_assign(P) == Parser_call("assign", P, <<>>)

self_let_type(P) == Parser_call("let_type", P, <<>>)

self_let_(P) == Parser_call("let_", P, <<>>)

self_statement(P) == Parser_call("statement", P, <<>>)

self_block_loop(P, exprs) == Parser_call("block_loop", P, <<exprs>>)

self_block(P, type_) == Parser_call("block", P, <<type_>>)

self_definition(P) == Parser_call("definition", P, <<>>)

\* self.lexer.next_token()
lexer_next_token(P) ==
    With(next_token(P.lexer), LAMBDA r : PRet([P EXCEPT !.lexer = r.L], r.res))

\* self.lexer.peek(dist)
lexer_peek(P, dist) ==
    With(peek(P.lexer, dist), LAMBDA r : PRet([P EXCEPT !.lexer = r.L], r.res))

\* fn eat
eat(P, token) ==
    Try(self_lexer_next_token(P), LAMBDA r :
        IF r.res.val # token
        THEN PRet(r.P, Err(Error("UnexpectedToken", <<token, r.res.val>>)))
        ELSE PRet(r.P, Ok(<<>>)))

\* fn identifier (of the parser)
parser_identifier(P) ==
    Try(self_lexer_next_token(P), LAMBDA r :
        IF r.res.val.kind = "Identifier"
        THEN PRet(r.P, Ok(r.res.val.val))
        ELSE PRet(r.P, Err(Error("Unexpected", "token, expecting identifier"))))

\* typing::get_const_str_from_string(name) where the parser state is P
type_from_string(P, name, K(_)) ==
    With(from_string(name), LAMBDA type_ :
        IF type_.ok THEN K(type_.val) ELSE PRet(P, type_))

\* the loop of fn parameters
parameters_loop(P, params, accept_more) ==
    Try(self_lexer_peek(P, 0), LAMBDA pk :
    CASE pk.res.val.kind = "Identifier" ->
           IF ~accept_more
           THEN PRet(pk.P, Err(Error("Unexpected", "operator, expected ','")))
           ELSE Try(self_lexer_next_token(pk.P), LAMBDA name :
                Try(self_eat(name.P, Tok("Colon")), LAMBDA colon :
                Try(self_lexer_next_token(colon.P), LAMBDA t :
                    IF t.res.val.kind # "Identifier"
                    THEN PRet(t.P, Err(Error("Unexpected", "type token")))
                    ELSE type_from_string(t.P, t.res.val.val, LAMBDA type_ :
                         With(Append(params, Parameter(name.res.val.val, type_)),
                              LAMBDA pushed : self_parameters_loop(t.P, pushed, FALSE))))))
      [] pk.res.val.kind = "CloseParen" ->
           Try(self_eat(pk.P, Tok("CloseParen")), LAMBDA e : PRet(e.P, Ok(params)))
      [] pk.res.val.kind = "Comma" ->
           Try(self_eat(pk.P, Tok("Comma")), LAMBDA e : self_parameters_loop(e.P, params, TRUE))
      [] OTHER -> PRet(pk.P, Err(Error("Unexpected", "token"))))

\* fn parameters
parameters(P) ==
    Try(self_eat(P, Tok("OpenParen")), LAMBDA e : self_parameters_loop(e.P, <<>>, TRUE))

\* fn prototype: the return type, a type name or void
return_type(P) ==
    Try(self_lexer_peek(P, 0), LAMBDA pk :
        IF pk.res.val.kind = "Identifier"
        THEN Try(self_parser_identifier(pk.P), LAMBDA id :
                 type_from_string(id.P, id.res.val, LAMBDA type_ : PRet(id.P, Ok(type_))))
        ELSE PRet(pk.P, Ok(VOID)))

\* fn prototype
prototype(P) ==
    Try(self_parser_identifier(P), LAMBDA function_name :
    Try(self_parameters(function_name.P), LAMBDA params :
    Try(self_return_type(params.P), LAMBDA ret_type :
    With([ret_type.P EXCEPT !.type_map =
             MapInsert(@, function_name.res.val, ret_type.res.val)], LAMBDA P1 :
        IF function_name.res.val \in DOMAIN ret_type.P.type_map
        THEN PRet(P1, Err(Error("FunctionRedef", "")))
        ELSE PRet(P1, Ok(Prototype(function_name.res.val, params.res.val,
                                   ret_type.res.val)))))))

\* fn extern_
extern_(P) ==
    Try(self_eat(P, Tok("Extern")), LAMBDA e : self_prototype(e.P))

\* fn binary_op: Option<BinaryOp> is <<op>> or <<>>
binary_op(P) ==
    Try(self_lexer_peek(P, 0), LAMBDA pk :
        CASE pk.res.val.kind = "LessThan" -> PRet(pk.P, Ok(<<"LessThan">>))
          [] pk.res.val.kind = "Minus" -> PRet(pk.P, Ok(<<"Minus">>))
          [] pk.res.val.kind = "Plus" -> PRet(pk.P, Ok(<<"Plus">>))
          [] pk.res.val.kind = "Star" -> PRet(pk.P, Ok(<<"Times">>))
          [] OTHER -> PRet(pk.P, Ok(<<>>)))

\* fn precedence
precedence(P, op) ==
    IF op \in DOMAIN bin_precedence
    THEN PRet(P, Ok(bin_precedence[op]))
    ELSE PRet(P, Err(Error("Undefined", <<"operator", <<>>>>)))


\* fn expr
expr(P) ==
    Try(self_primary(P), LAMBDA left : self_binary_right(left.P, 0, left.res.val))

\* fn primary
primary(P) ==
    Try(self_lexer_peek(P, 0), LAMBDA pk :
    CASE pk.res.val.kind = "Float" ->
           Try(self_lexer_next_token(pk.P), LAMBDA n :
               PRet(n.P, Ok(Expr("Float", <<pk.res.val.val>>, F64))))
      [] pk.res.val.kind = "Integer" ->
           Try(self_lexer_next_token(pk.P), LAMBDA n :
               PRet(n.P, Ok(Expr("Integer", <<pk.res.val.val>>, I64))))
      [] pk.res.val.kind = "OpenParen" ->
           Try(self_eat(pk.P, Tok("OpenParen")), LAMBDA open :
           Try(self_expr(open.P), LAMBDA e :
           Try(self_eat(e.P, Tok("CloseParen")), LAMBDA close : PRet(close.P, e.res))))
      [] pk.res.val.kind = "Identifier" -> self_ident_expr(pk.P)
      [] OTHER ->
           PRet(pk.P, Err(Error("Unexpected", "token when expecting an expression"))))

\* the while loop of fn args
args_loop(P, pushed) ==
    Try(self_lexer_peek(P, 0), LAMBDA pk :
        IF pk.res.val = Tok("Comma")
        THEN Try(self_eat(pk.P, Tok("Comma")), LAMBDA c :
             Try(self_expr(c.P), LAMBDA e :
             With(Append(pushed, e.res.val), LAMBDA more : self_args_loop(e.P, more))))
        ELSE PRet(pk.P, Ok(pushed)))

\* fn args
args(P) ==
    Try(self_lexer_peek(P, 0), LAMBDA pk :
        IF pk.res.val = Tok("CloseParen") THEN PRet(pk.P, Ok(<<>>))
        ELSE Try(self_expr(pk.P), LAMBDA e : self_args_loop(e.P, <<e.res.val>>)))

\* fn ident_expr
ident_expr(P) ==
    Try(self_parser_identifier(P), LAMBDA name :
    IF name.res.val \notin DOMAIN name.P.type_map
    THEN PRet(name.P, Err(Error("Undefined", <<"identifier", name.res.val>>)))
    ELSE
    With(name.P.type_map[name.res.val], LAMBDA type_ :
    Try(self_lexer_peek(name.P, 0), LAMBDA pk :
        IF pk.res.val.kind = "OpenParen"
        THEN Try(self_eat(pk.P, Tok("OpenParen")), LAMBDA open :
             Try(self_args(open.P), LAMBDA a :
             Try(self_eat(a.P, Tok("CloseParen")), LAMBDA close :
                 PRet(close.P, Ok(Expr("Call", <<name.res.val, a.res.val>>, type_))))))
        ELSE PRet(pk.P, Ok(Expr("Variable", <<name.res.val>>, type_))))))

\* fn binary_right: the right operand, which takes the operators that bind
\* tighter than op
right_operand(P, token_precedence, right) ==
    Try(self_binary_op(P), LAMBDA next :
        IF next.res.val = <<>> THEN PRet(next.P, Ok(right))
        ELSE Try(self_precedence(next.P, next.res.val[1]), LAMBDA next_precedence :
                 IF token_precedence < next_precedence.res.val
                 THEN self_binary_right(next_precedence.P, token_precedence + 1, right)
                 ELSE PRet(next_precedence.P, Ok(right))))

\* fn binary_right
binary_right(P, expr_precedence, left) ==
    Try(self_binary_op(P), LAMBDA bo :
    IF bo.res.val = <<>> THEN PRet(bo.P, Ok(left))
    ELSE
    Try(self_precedence(bo.P, bo.res.val[1]), LAMBDA token_precedence :
    IF token_precedence.res.val < expr_precedence THEN PRet(token_precedence.P, Ok(left))
    ELSE
    Try(self_lexer_next_token(token_precedence.P), LAMBDA n :
    Try(self_primary(n.P), LAMBDA right0 :
    Try(self_right_operand(right0.P, token_precedence.res.val, right0.res.val), LAMBDA right :
        self_binary_right(right.P, expr_precedence,
                     Expr("Binary", <<bo.res.val[1], left, right.res.val>>,
                          left.type_)))))))

\* fn assign
assign(P) ==
    Try(self_parser_identifier(P), LAMBDA name :
    Try(self_eat(name.P, Tok("Equal")), LAMBDA eq :
    Try(self_expr(eq.P), LAMBDA e :
        PRet(e.P, Ok(Expr("Assign", <<name.res.val, e.res.val>>, e.res.val.type_))))))

\* fn let_: the type annotation, Any when there is none
let_type(P) ==
    Try(self_lexer_peek(P, 0), LAMBDA token :
        IF token.res.val = Tok("Colon")
        THEN Try(self_eat(token.P, Tok("Colon")), LAMBDA colon :
             Try(self_parser_identifier(colon.P), LAMBDA id :
                 type_from_string(id.P, id.res.val, LAMBDA type_ : PRet(id.P, Ok(type_)))))
        ELSE PRet(token.P, Ok(ANY)))

\* type_.is_empty() in fn let_: the Any sentinel is the type whose name is
\* empty
is_empty(type_) == type_ = ANY

\* fn let_ without the comparison of the annotation with the initializer
let_unchecked(P) ==
    Try(self_eat(P, Tok("Let")), LAMBDA l :
    Try(self_parser_identifier(l.P), LAMBDA name :
    Try(self_let_type(name.P), LAMBDA type_ :
    Try(self_lexer_peek(type_.P, 0), LAMBDA pk :
    CASE pk.res.val.kind = "Equal" ->
           Try(self_eat(pk.P, Tok("Equal")), LAMBDA eq :
           Try(self_expr(eq.P), LAMBDA e :
               IF TRUE
               THEN With([e.P EXCEPT !.type_map =
                             MapInsert(@, name.res.val, e.res.val.type_)], LAMBDA P1 :
                        IF name.res.val \in DOMAIN e.P.type_map
                        THEN PRet(P1, Err(Error("VariableRedef", "")))
                        ELSE PRet(P1, Ok(Expr("Let", <<name.res.val, <<e.res.val>>>>,
                                              e.res.val.type_))))
               ELSE PRet(e.P, Err(Error("MismatchedTypes",
                                        <<type_.res.val, e.res.val.type_>>)))))
      [] pk.res.val.kind = "SemiColon" ->
           With([pk.P EXCEPT !.type_map = MapInsert(@, name.res.val, type_.res.val)],
                LAMBDA P1 :
                IF name.res.val \in DOMAIN pk.P.type_map
                THEN PRet(P1, Err(Error("VariableRedef", "")))
                ELSE IF type_.res.val = ANY
                THEN PRet(P1, Err(Error("Undefined", <<"type", <<>>>>)))
                ELSE PRet(P1, Ok(Expr("Let", <<name.res.val, <<>>>>, type_.res.val))))
      [] OTHER -> PRet(pk.P, Err(Error("Unexpected", "Expected ';' or '='")))))))

\* fn let_
let_(P) ==
    Try(self_eat(P, Tok("Let")), LAMBDA l :
    Try(self_parser_identifier(l.P), LAMBDA name :
    Try(self_let_type(name.P), LAMBDA type_ :
    Try(self_lexer_peek(type_.P, 0), LAMBDA pk :
    CASE pk.res.val.kind = "Equal" ->
           Try(self_eat(pk.P, Tok("Equal")), LAMBDA eq :
           Try(self_expr(eq.P), LAMBDA e :
               IF is_empty(type_.res.val) \/ e.res.val.type_ = type_.res.val
               THEN With([e.P EXCEPT !.type_map =
                             MapInsert(@, name.res.val, e.res.val.type_)], LAMBDA P1 :
                        IF name.res.val \in DOMAIN e.P.type_map
                        THEN PRet(P1, Err(Error("VariableRedef", "")))
                        ELSE PRet(P1, Ok(Expr("Let", <<name.res.val, <<e.res.val>>>>,
                                              e.res.val.type_))))
               ELSE PRet(e.P, Err(Error("MismatchedTypes",
                                        <<type_.res.val, e.res.val.type_>>)))))
      [] pk.res.val.kind = "SemiColon" ->
           With([pk.P EXCEPT !.type_map = MapInsert(@, name.res.val, type_.res.val)],
                LAMBDA P1 :
                IF name.res.val \in DOMAIN pk.P.type_map
                THEN PRet(P1, Err(Error("VariableRedef", "")))
                ELSE IF type_.res.val = ANY
                THEN PRet(P1, Err(Error("Undefined", <<"type", <<>>>>)))
                ELSE PRet(P1, Ok(Expr("Let", <<name.res.val, <<>>>>, type_.res.val))))
      [] OTHER -> PRet(pk.P, Err(Error("Unexpected", "Expected ';' or '='")))))))

\* one statement of fn block: the match on the peeked token
statement(P) ==
    Try(self_lexer_peek(P, 0), LAMBDA pk :
    CASE pk.res.val.kind = "Return" ->
           Try(self_eat(pk.P, Tok("Return")), LAMBDA r :
           Try(self_lexer_peek(r.P, 0), LAMBDA pk2 :
               IF pk2.res.val = Tok("SemiColon")
               THEN PRet(pk2.P, Ok(Expr("Return", <<<<>>>>, VOID)))
               ELSE Try(self_expr(pk2.P), LAMBDA e :
                        PRet(e.P, Ok(Expr("Return", <<<<e.res.val>>>>,
                                          e.res.val.type_))))))
      [] pk.res.val.kind = "Let" -> self_let_(pk.P)
      [] pk.res.val.kind = "Identifier" ->
           Try(self_lexer_peek(pk.P, 1), LAMBDA pk1 :
               IF pk1.res.val = Tok("Equal") THEN self_assign(pk1.P) ELSE self_expr(pk1.P))
      [] OTHER -> self_expr(pk.P))

\* the loop of fn block
block_loop(P, exprs) ==
    Try(self_statement(P), LAMBDA s :
    Try(self_eat(s.P, Tok("SemiColon")), LAMBDA semi :
    Try(self_lexer_peek(semi.P, 0), LAMBDA pk :
    With(Append(exprs, s.res.val), LAMBDA pushed :
        IF pk.res.val = Tok("CloseBracket")
        THEN Try(self_eat(pk.P, Tok("CloseBracket")), LAMBDA close :
                 PRet(close.P, Ok(pushed)))
        ELSE self_block_loop(pk.P, pushed)))))

\* fn block
block(P, type_) ==
    Try(self_eat(P, Tok("OpenBracket")), LAMBDA open :
    Try(self_block_loop(open.P, <<>>), LAMBDA b :
        PRet(b.P, Ok(Expr("Block", <<b.res.val>>, type_)))))

\* the two loops of fn definition over prototype.parameters
RECURSIVE insert_parameters(_, _)
insert_parameters(map, params) ==
    IF params = <<>> THEN map
    ELSE insert_parameters(MapInsert(map, Head(params).name, Head(params).type_),
                           Tail(params))

RECURSIVE remove_parameters(_, _)
remove_parameters(map, params) ==
    IF params = <<>> THEN map
    ELSE remove_parameters(MapRemove(map, Head(params).name), Tail(params))

\* fn definition
definition(P) ==
    Try(self_eat(P, Tok("Def")), LAMBDA def :
    Try(self_prototype(def.P), LAMBDA proto :
    With([proto.P EXCEPT !.type_map = insert_parameters(@, proto.res.val.parameters)],
         LAMBDA P1 :
    Try(self_block(P1, proto.res.val.return_type), LAMBDA body :
        PRet([body.P EXCEPT !.type_map =
                 remove_parameters(@, proto.res.val.parameters)],
             Ok(Function(proto.res.val, body.res.val)))))))

\* impl Parser: the methods by name
Parser_call(method, P, a) ==
    CASE method = "lexer_next_token" -> lexer_next_token(P)
      [] method = "lexer_peek" -> lexer_peek(P, a[1])
      [] method = "eat" -> eat(P, a[1])
      [] method = "parser_identifier" -> parser_identifier(P)
      [] method = "parameters_loop" -> parameters_loop(P, a[1], a[2])
      [] method = "parameters" -> parameters(P)
      [] method = "return_type" -> return_type(P)
      [] method = "prototype" -> prototype(P)
      [] method = "extern_" -> extern_(P)
      [] method = "binary_op" -> binary_op(P)
      [] method = "precedence" -> precedence(P, a[1])
      [] method = "expr" -> expr(P)
      [] method = "primary" -> primary(P)
      [] method = "args_loop" -> args_loop(P, a[1])
      [] method = "args" -> args(P)
      [] method = "ident_expr" -> ident_expr(P)
      [] method = "right_operand" -> right_operand(P, a[1], a[2])
      [] method = "binary_right" -> binary_right(P, a[1], a[2])
      [] method = "assign" -> assign(P)
      [] method = "let_type" -> let_type(P)
      [] method = "let_" -> let_(P)
      [] method = "statement" -> statement(P)
      [] method = "block_loop" -> block_loop(P, a[1])
      [] method = "block" -> block(P, a[1])
      [] method = "definition" -> definition(P)

-----------------------------------------------------------------------------
(* The IR generator (src/gen.rs).  The IR module and the function builder  *)
(* of the code-generation library are modelled by what the generator asks  *)
(* of them: the functions declared and defined, the instructions emitted.  *)

\* AuroraType::get_type (get_type_from_str): Option<Type> is <<t>> or <<>>
get_type_from_str(type_) ==
    CASE type_ = BOOL -> <<"I8">>
      [] type_ = I8 -> <<"I8">>
      [] type_ = I16 -> <<"I16">>
      [] type_ = I32 -> <<"I32">>
      [] type_ = I64 -> <<"I64">>
      [] type_ = F32 -> <<"F32">>
      [] type_ = F64 -> <<"F64">>
      [] OTHER -> <<>>

\* impl Display for AuroraType, as bytes
TypeName(type_) ==
    CASE type_ = ANY -> <<"a","n","y">>
      [] type_ = VOID -> <<"v","o","i","d">>
      [] type_ = BOOL -> <<"b","o","o","l">>
      [] type_ = I8 -> <<"i","8">>
      [] type_ = I16 -> <<"i","1","6">>
      [] type_ = I32 -> <<"i","3","2">>
      [] type_ = I64 -> <<"i","6","4">>
      [] type_ = F32 -> <<"f","3","2">>
      [] type_ = F64 -> <<"f","6","4">>

\* format!("{}->{}", from, to)
cast_name(from, to) == TypeName(from) \o <<"-", ">">> \o TypeName(to)

\* struct CompiledFunction
CompiledFunction(defined, id, param_count, return_count) ==
    [defined |-> defined, id |-> id, param_count |-> param_count,
     return_count |-> return_count]

\* struct ParseExpr: new, new_return, empty, empty_return
ParseExpr(value, is_return) == [value |-> value, is_return |-> is_return]

\* a Value of the IR: the result of instruction n, the current value of
\* variable n, or block parameter n
Value(src, n) == [src |-> src, n |-> n]

\* A function generator state FG is [functions, ins, decls, values, index]:
\* the function table it reads, the instructions emitted into the function,
\* the functions declared in it (declare_func_in_func), the scope table and
\* the index of the variable builder.
GRet(FG, res) == [FG |-> FG, res |-> res]

\* a function generator before anything is emitted
NewBuilder(fns, index) ==
    [functions |-> fns, ins |-> <<>>, decls |-> {}, values |-> EmptyMap,
     index |-> index, finalized |-> FALSE]

\* self.builder.ins().<op>(operands): emits one instruction; its result is a Value
Ins(op, ty, operands) == [op |-> op, ty |-> ty, operands |-> operands]

Emit(FG, op, ty, operands) == [FG EXCEPT !.ins = Append(@, Ins(op, ty, operands))]

LastValue(FG) == Value("inst", Len(FG.ins))

\* fn cast
cast(FG, value, from, to) ==
    IF cast_name(from, to) \in DOMAIN FG.functions
    THEN With(FG.functions[cast_name(from, to)], LAMBDA func :
         With(Emit([FG EXCEPT !.decls = @ \cup {func.id}], "call", func.id, <<value>>),
              LAMBDA FG1 : GRet(FG1, Ok(LastValue(FG1)))))
    ELSE GRet(FG, Err(Error("Undefined", <<"can't cast", <<from, to>>>>)))

RECURSIVE gen_expr(_, _)
RECURSIVE gen_args(_, _, _)
RECURSIVE gen_block(_, _)
RECURSIVE gen_block_through(_, _)

\* self.builder.ins().<op>(operands), wrapped in ParseExpr::new(Some(..))
EmitValue(FG, op, ty, operands) ==
    With(Emit(FG, op, ty, operands), LAMBDA FG1 :
         GRet(FG1, Ok(ParseExpr(<<LastValue(FG1)>>, FALSE))))

\* self.expr(e)?.value.unwrap()
TryValue(r, K(_)) ==
    Try(r, LAMBDA x : IF x.res.val.value = <<>>
                      THEN GRet(x.FG, Panic("unwrap on None"))
                      ELSE K(x))

\* fn expr, ExprType::Binary, BinaryOp::Plus
gen_plus(FG, left, right, left_value, right_value) ==
    CASE left.type_ = I64 ->
           IF right.type_ # left.type_
           THEN GRet(FG, Err(Error("MismatchedTypes", <<left.type_, right.type_>>)))
           ELSE EmitValue(FG, "iadd", "", <<left_value, right_value>>)
      [] left.type_ = F64 ->
           IF right.type_ # left.type_
           THEN Try(cast(FG, right_value, right.type_, left.type_), LAMBDA c :
                    EmitValue(c.FG, "fadd", "", <<left_value, c.res.val>>))
           ELSE EmitValue(FG, "fadd", "", <<left_value, right_value>>)
      [] OTHER -> GRet(FG, Err(Error("Unexpected", "can't add this type")))

\* fn expr, ExprType::Binary
gen_binary(FG, e) ==
    TryValue(gen_expr(FG, e.args[2]), LAMBDA l :
    TryValue(gen_expr(l.FG, e.args[3]), LAMBDA r :
    CASE e.args[1] = "Plus" ->
           gen_plus(r.FG, e.args[2], e.args[3], l.res.val.value[1], r.res.val.value[1])
      [] e.args[1] = "Minus" ->
           EmitValue(r.FG, "fsub", "", <<l.res.val.value[1], r.res.val.value[1]>>)
      [] e.args[1] = "Times" ->
           EmitValue(r.FG, "fmul", "", <<l.res.val.value[1], r.res.val.value[1]>>)
      [] e.args[1] = "LessThan" ->
           EmitValue(r.FG, "fcmp", "LessThan",
                     <<l.res.val.value[1], r.res.val.value[1]>>)))

\* fn expr, ExprType::Call: args.into_iter().map(|arg| self.expr(&arg)).collect()
\* stops at the first argument whose lowering fails
gen_args(FG, call_args, parsed) ==
    IF call_args = <<>> THEN GRet(FG, Ok(parsed))
    ELSE Try(gen_expr(FG, Head(call_args)), LAMBDA a :
         With(Append(parsed, a.res.val), LAMBDA more :
              gen_args(a.FG, Tail(call_args), more)))

\* fn expr, ExprType::Call: the call instruction, once the arguments are lowered
emit_call(FG, func, arguments) ==
    IF \E i \in 1..Len(arguments) : arguments[i].value = <<>>
    THEN GRet(FG, Panic("unwrap on None"))
    ELSE With(Emit(FG, "call", func.id,
                   [i \in 1..Len(arguments) |-> arguments[i].value[1]]), LAMBDA FG2 :
              IF func.return_count > 0
              THEN GRet(FG2, Ok(ParseExpr(<<LastValue(FG2)>>, FALSE)))
              ELSE GRet(FG2, Ok(ParseExpr(<<>>, FALSE))))

\* ExprType::Call with the argument count compared after the callee is declared
\* in the function and the arguments are lowered
gen_call_late(FG, e) ==
    IF e.args[1] \notin DOMAIN FG.functions
    THEN GRet(FG, Err(Error("Undefined", <<"function", e.args[1]>>)))
    ELSE
    With(FG.functions[e.args[1]], LAMBDA func :
    Try(gen_args([FG EXCEPT !.decls = @ \cup {func.id}], e.args[2], <<>>),
        LAMBDA arguments :
        IF func.param_count # Len(e.args[2])
        THEN GRet(arguments.FG, Err(Error("WrongArgumentCount", "")))
        ELSE emit_call(arguments.FG, func, arguments.res.val)))

\* fn expr, ExprType::Call
gen_call(FG, e) ==
    IF e.args[1] \notin DOMAIN FG.functions
    THEN GRet(FG, Err(Error("Undefined", <<"function", e.args[1]>>)))
    ELSE
    With(FG.functions[e.args[1]], LAMBDA func :
    IF func.param_count # Len(e.args[2])
    THEN GRet(FG, Err(Error("WrongArgumentCount", "")))
    ELSE Try(gen_args([FG EXCEPT !.decls = @ \cup {func.id}], e.args[2], <<>>),
             LAMBDA arguments : emit_call(arguments.FG, func, arguments.res.val)))

\* fn expr, ExprType::Block, without the return out of the loop at a statement
\* that returns
gen_block_through(FG, exprs) ==
    IF exprs = <<>>
    THEN GRet(Emit(FG, "return", "", <<>>), Ok(ParseExpr(<<>>, FALSE)))
    ELSE Try(gen_expr(FG, Head(exprs)), LAMBDA p : gen_block_through(p.FG, Tail(exprs)))

\* fn expr, ExprType::Block: the for loop, then the implicit return
gen_block(FG, exprs) ==
    IF exprs = <<>>
    THEN GRet(Emit(FG, "return", "", <<>>), Ok(ParseExpr(<<>>, FALSE)))
    ELSE Try(gen_expr(FG, Head(exprs)), LAMBDA p :
             IF p.res.val.is_return THEN p ELSE gen_block(p.FG, Tail(exprs)))

\* VariableBuilder::define_var / create_var: declare_var, then def_var when
\* there is a value
declare_var(FG, name, type_, value) ==
    With(Emit(FG, "declare_var", type_, <<FG.index>>), LAMBDA FG1 :
    With(IF value = <<>> THEN FG1
         ELSE Emit(FG1, "def_var", "", <<FG.index, value[1]>>), LAMBDA FG2 :
         [FG2 EXCEPT !.index = @ + 1, !.values = MapInsert(@, name, FG.index)]))

\* fn expr, ExprType::Float and ExprType::Integer
gen_const(FG, e, op, types) ==
    With(get_type_from_str(e.type_), LAMBDA type_ :
         IF type_ = <<>> THEN GRet(FG, Ok(ParseExpr(<<>>, FALSE)))
         ELSE IF type_[1] \in types
         THEN EmitValue(FG, op[type_[1]], type_[1], e.args)
         ELSE GRet(FG, Panic("not implemented")))

FloatConst == [t \in {"F32", "F64"} |-> IF t = "F32" THEN "f32const" ELSE "f64const"]

IntConst == [t \in {"I8", "I16", "I32", "I64"} |-> "iconst"]

\* fn expr, ExprType::Let
gen_let(FG, e) ==
    IF e.args[2] = <<>>
    THEN IF get_type_from_str(e.type_) = <<>>
         THEN GRet(FG, Panic("unwrap on None"))
         ELSE GRet(declare_var(FG, e.args[1], get_type_from_str(e.type_)[1], <<>>),
                   Ok(ParseExpr(<<>>, FALSE)))
    ELSE Try(gen_expr(FG, e.args[2][1]), LAMBDA parse_expr :
             IF parse_expr.res.val.value = <<>>
             THEN GRet(parse_expr.FG, Panic("value"))
             ELSE IF get_type_from_str(e.type_) = <<>>
             THEN GRet(parse_expr.FG, Panic("unwrap on None"))
             ELSE GRet(declare_var(parse_expr.FG, e.args[1],
                                   get_type_from_str(e.type_)[1],
                                   parse_expr.res.val.value),
                       parse_expr.res))

\* fn expr (of FunctionGenerator)
gen_expr(FG, e) ==
    CASE e.kind = "Float" -> gen_const(FG, e, FloatConst, {"F32", "F64"})
      [] e.kind = "Integer" -> gen_const(FG, e, IntConst, {"I8", "I16", "I32", "I64"})
      [] e.kind = "Variable" ->
           IF e.args[1] \in DOMAIN FG.values
           THEN GRet(FG, Ok(ParseExpr(<<Value("var", FG.values[e.args[1]])>>, FALSE)))
           ELSE GRet(FG, Err(Error("Undefined", <<"variable", e.args[1]>>)))
      [] e.kind = "Binary" -> gen_binary(FG, e)
      [] e.kind = "Call" -> gen_call(FG, e)
      [] e.kind = "Block" -> gen_block(FG, e.args[1])
      [] e.kind = "Return" ->
           IF e.args[1] = <<>>
           THEN GRet(Emit(FG, "return", "", <<>>), Ok(ParseExpr(<<>>, TRUE)))
           ELSE TryValue(gen_expr(FG, e.args[1][1]), LAMBDA value :
                    GRet(Emit(value.FG, "return", "", value.res.val.value),
                         Ok(ParseExpr(value.res.val.value, TRUE))))
      [] e.kind = "Let" -> gen_let(FG, e)
      [] e.kind = "Assign" ->
           Try(gen_expr(FG, e.args[2]), LAMBDA val :
               IF e.args[1] \in DOMAIN val.FG.values
               THEN IF val.res.val.value = <<>>
                    THEN GRet(val.FG, Panic("unwrap on None"))
                    ELSE GRet(Emit(val.FG, "def_var", "",
                                   <<val.FG.values[e.args[1]], val.res.val.value[1]>>),
                              val.res)
               ELSE GRet(val.FG, Err(Error("Undefined", <<"variable", e.args[1]>>))))

-----------------------------------------------------------------------------
(* The IR module: the functions declared (name, linkage, signature; the    *)
(* FuncId is the position, from 0) and the bodies defined.                 *)

EmptyModule == [declared |-> <<>>, defined |-> {}, bodies |-> <<>>]

\* A generator state G is [functions, module, variable_builder]
GenRet(G, res) == [G |-> G, res |-> res]

\* fn new (of Generator)
NewGenerator == [functions |-> EmptyMap, module |-> EmptyModule, variable_builder |-> 0]

\* self.module.declare_function(name, linkage, signature): a name declared
\* again keeps its id when the signature is the same, and is an error when not
declare_function(M, name, linkage, signature) ==
    LET known == { i \in 1..Len(M.declared) : M.declared[i].name = name } IN
    IF known = {}
    THEN [M |-> [M EXCEPT !.declared = Append(@, [name |-> name, linkage |-> linkage,
                                                   signature |-> signature])],
          res |-> Ok(Len(M.declared))]
    ELSE LET i == CHOOSE i \in known : TRUE IN
         IF M.declared[i].signature.params = signature.params
            /\ M.declared[i].signature.returns = signature.returns
         THEN [M |-> [M EXCEPT !.declared[i].linkage =
                         IF linkage = "Export" THEN "Export" ELSE @],
               res |-> Ok(i - 1)]
         ELSE [M |-> M, res |-> Err(Error("CraneliftModule", "IncompatibleSignature"))]

\* self.module.define_function(func_id, &mut context): an imported function
\* and an already defined function cannot be defined
define_function(M, func_id, body) ==
    IF M.declared[func_id + 1].linkage = "Import"
    THEN [M |-> M, res |-> Err(Error("CraneliftModule", "InvalidImportDefinition"))]
    ELSE IF func_id \in M.defined
    THEN [M |-> M, res |-> Err(Error("CraneliftModule", "DuplicateDefinition"))]
    ELSE [M |-> [M EXCEPT !.defined = @ \cup {func_id},
                          !.bodies = Append(@, [id |-> func_id, ins |-> body])],
          res |-> Ok(<<>>)]

\* fn signature_append_from_prototype: Ok(signature), or the panic of expect
signature_append_from_prototype(proto, signature) ==
    IF \E i \in 1..Len(proto.parameters) :
          get_type_from_str(proto.parameters[i].type_) = <<>>
    THEN Panic("Parameter can't be void")
    ELSE Ok([params |-> signature.params \o
                        [i \in 1..Len(proto.parameters) |->
                            get_type_from_str(proto.parameters[i].type_)[1]],
             returns |-> signature.returns \o get_type_from_str(proto.return_type)])

EmptySignature == [params |-> <<>>, returns |-> <<>>]

\* fn prototype (of Generator)
gen_prototype(G, proto, linkage) ==
    IF proto.function_name \notin DOMAIN G.functions
    THEN With(signature_append_from_prototype(proto, EmptySignature), LAMBDA signature :
         IF ~signature.ok THEN GenRet(G, signature)
         ELSE
         With(declare_function(G.module, proto.function_name, linkage, signature.val),
              LAMBDA d :
         IF ~d.res.ok THEN GenRet(G, d.res)
         ELSE GenRet([G EXCEPT !.module = d.M,
                               !.functions = MapInsert(@, proto.function_name,
                                   CompiledFunction(FALSE, d.res.val,
                                       Len(proto.parameters),
                                       IF proto.return_type = VOID THEN 0 ELSE 1))],
                     Ok(d.res.val))))
    ELSE With(G.functions[proto.function_name], LAMBDA function :
         IF function.defined THEN GenRet(G, Err(Error("FunctionRedef", "")))
         ELSE IF function.param_count # Len(proto.parameters)
         THEN GenRet(G, Err(Error("FunctionRedefWithDifferentParams", "")))
         ELSE GenRet(G, Ok(function.id)))

\* The pairs of decl_cast! in raw_func, in order
Casts ==
    << <<I8, F32>>, <<I16, F32>>, <<I32, F32>>, <<I64, F32>>,
       <<I8, F64>>, <<I16, F64>>, <<I32, F64>>, <<I64, F64>> >>

\* the function a decl_cast! builds: the conversion of the parameter, returned
cast_body(to) ==
    << Ins("fcvt_from_sint", get_type_from_str(to)[1], <<Value("param", 0)>>),
       Ins("return", "", <<Value("inst", 1)>>) >>

\* macro decl_cast! of raw_func
decl_cast(G, from, to) ==
    With(gen_prototype(G, Prototype(cast_name(from, to),
                                    <<Parameter(<<"v","a","l">>, from)>>, to), "Export"),
         LAMBDA p :
    IF ~p.res.ok THEN p
    ELSE
    With(IF cast_name(I64, F64) \in DOMAIN p.G.functions
         THEN [p.G EXCEPT !.functions[cast_name(I64, F64)].defined = TRUE]
         ELSE p.G, LAMBDA G1 :
    With(define_function(G1.module, p.res.val, cast_body(to)), LAMBDA d :
         IF ~d.res.ok THEN GenRet(G1, d.res)
         ELSE GenRet([G1 EXCEPT !.module = d.M], Ok(<<>>)))))

RECURSIVE raw_func_from(_, _)
\* fn raw_func, from the i-th decl_cast! on
raw_func_from(G, i) ==
    IF i > Len(Casts) THEN GenRet(G, Ok(<<>>))
    ELSE With(decl_cast(G, Casts[i][1], Casts[i][2]), LAMBDA c :
              IF ~c.res.ok THEN c ELSE raw_func_from(c.G, i + 1))

\* fn raw_func
raw_func(G) == raw_func_from(G, 1)

\* fn init_essential_lib
init_essential_lib(G) == raw_func(G)

RECURSIVE create_params(_, _, _)
\* fn function, "Add parameters to stack": create_var for each block parameter
create_params(FG, params, i) ==
    IF i > Len(params) THEN FG
    ELSE create_params(declare_var(FG, params[i].name,
                                   get_type_from_str(params[i].type_)[1],
                                   <<Value("param", i - 1)>>),
                       params, i + 1)

\* fn function from the lowering of the body on, without the removal of the
\* entry when the body fails
function_body_keep(G1, function, func_id) ==
    With(gen_expr(create_params(NewBuilder(G1.functions, G1.variable_builder),
                                function.prototype.parameters, 1),
                  function.body), LAMBDA b :
    With([G1 EXCEPT !.variable_builder = b.FG.index], LAMBDA G2 :
    IF ~b.res.ok
    THEN IF b.res.err.kind = "Panic"
         THEN [G |-> G2, res |-> b.res, FG |-> b.FG]
         ELSE [G |-> G2, res |-> b.res, FG |-> [b.FG EXCEPT !.finalized = TRUE]]
    ELSE
    With(define_function(G2.module, func_id, b.FG.ins), LAMBDA d :
         IF ~d.res.ok
         THEN [G |-> G2, res |-> d.res, FG |-> [b.FG EXCEPT !.finalized = TRUE]]
         ELSE [G |-> [G2 EXCEPT !.module = d.M], res |-> Ok(<<>>),
               FG |-> [b.FG EXCEPT !.finalized = TRUE]])))

\* fn function from the lowering of the body on: FG is the function generator
\* it ran, for what was emitted into the function
function_body(G1, function, func_id) ==
    With(gen_expr(create_params(NewBuilder(G1.functions, G1.variable_builder),
                                function.prototype.parameters, 1),
                  function.body), LAMBDA b :
    With([G1 EXCEPT !.variable_builder = b.FG.index], LAMBDA G2 :
    IF ~b.res.ok
    THEN IF b.res.err.kind = "Panic"
         THEN [G |-> G2, res |-> b.res, FG |-> b.FG]
         ELSE [G |-> [G2 EXCEPT !.functions =
                         MapRemove(@, function.prototype.function_name)],
               res |-> b.res, FG |-> [b.FG EXCEPT !.finalized = TRUE]]
    ELSE
    With(define_function(G2.module, func_id, b.FG.ins), LAMBDA d :
         IF ~d.res.ok
         THEN [G |-> G2, res |-> d.res, FG |-> [b.FG EXCEPT !.finalized = TRUE]]
         ELSE [G |-> [G2 EXCEPT !.module = d.M], res |-> Ok(<<>>),
               FG |-> [b.FG EXCEPT !.finalized = TRUE]])))

\* fn function (of Generator)
gen_function(G, function) ==
    With(signature_append_from_prototype(function.prototype, EmptySignature),
         LAMBDA signature :
    IF ~signature.ok
    THEN [G |-> G, res |-> signature, FG |-> NewBuilder(G.functions, G.variable_builder)]
    ELSE
    With(gen_prototype(G, function.prototype, "Export"), LAMBDA p :
    IF ~p.res.ok
    THEN [G |-> p.G, res |-> p.res, FG |-> NewBuilder(G.functions, G.variable_builder)]
    ELSE function_body(
             IF function.prototype.function_name \in DOMAIN p.G.functions
             THEN [p.G EXCEPT !.functions[function.prototype.function_name].defined = TRUE]
             ELSE p.G,
             function, p.res.val)))

-----------------------------------------------------------------------------
(* The lexer under test: any byte string, any sequence of next_token() and *)
(* peek(dist) calls.                                                       *)

\* the bytes enumerated exhaustively: a letter of a keyword and another one,
\* a digit, the dot, the comment sign, the newline, an operator and a byte no
\* rule accepts
LexAlphabet == {"f", "n", "1", ".", "#", "\n", "+", "@"}

Chars(n) == [1..n -> LexAlphabet]

\* the program of the specification's lexer round trip
SampleFn ==
    <<"f","n"," ","f","o","o","(","x",":"," ","i","3","2",")"," ","i","3","2"," ",
      "{"," ","r","e","t","u","r","n"," ","x"," ","+"," ","1",";"," ","}">>

\* further inputs: two tokens before a comment, the other keywords and their
\* near misses, the other blanks, numerals with leading and trailing zeros, a
\* numeric non-ASCII byte
SampleInputs ==
    { SampleFn,
      <<"+","1","#","\n","n">>,
      <<"l","e","t"," ","_","l","e","t","\t","L","e","t","\r","\n","l","e","t","1">>,
      <<"e","x","t","e","r","n"," ","e","x","t","e","r","n","_",";","r","e","t","u","r","n">>,
      <<"0","0","7"," ","1",".","5","0","#","c","\n","0","7",".","x","1","0xB2">>,
      <<"a","<","b","#","c","\n","#","\n","-","c","*","(","d",")",",","=","{","}">> }

LexInputs == UNION { Chars(n) : n \in 0..MaxInputLen } \cup SampleInputs

\* fn new (of Lexer)
NewLexer ==
    /\ bytes = 0
    /\ lookahead = <<>>
    /\ line = 1
    /\ pos = 1

\* no call observed yet
NoCalls ==
    /\ ret = [op |-> "new", dist |-> 0, scanned |-> FALSE, res |-> Ok(Tok("None"))]
    /\ out = <<>>
    /\ promised = {}
    /\ kept = TRUE
    /\ eofSeen = FALSE
    /\ calls = 0

NoReport == [op |-> "none", res |-> Ok(<<>>)]

\* no item at hand
NoItem ==
    /\ ast = <<>>
    /\ builder = NewBuilder(EmptyMap, 0)
    /\ report = NoReport

\* fn new (of Generator)
SetGenerator(G) ==
    /\ functions = G.functions
    /\ module = G.module
    /\ variable_builder = G.variable_builder

InitLexer ==
    /\ input \in LexInputs
    /\ NewLexer
    /\ NoCalls
    /\ type_map = EmptyMap
    /\ SetGenerator(NewGenerator)
    /\ NoItem
    /\ status = "lexing"

SetLexer(L) ==
    /\ bytes' = L.bytes
    /\ lookahead' = L.lookahead
    /\ line' = L.line
    /\ pos' = L.pos

\* a call of Lexer::next_token
NextToken ==
    LET r == next_token(Lexer) IN
    /\ SetLexer(r.L)
    /\ ret' = [op |-> "next_token", dist |-> 0, scanned |-> lookahead = <<>>,
               res |-> r.res]
    /\ out' = IF r.res.ok /\ r.res.val # Eof THEN Append(out, r.res.val) ELSE out
    /\ eofSeen' = (eofSeen \/ (r.res.ok /\ r.res.val = Eof))
    /\ calls' = IF r.res.ok /\ r.res.val = Eof THEN calls ELSE calls + 1
    /\ promised' = { [n |-> p.n - 1, tok |-> p.tok] : p \in { q \in promised : q.n > 0 } }
    /\ kept' = (kept /\ \A p \in promised : p.n = 0 => (r.res.ok /\ r.res.val = p.tok))
    /\ UNCHANGED <<input, type_map, genVars, itemVars>>

\* a call of Lexer::peek
Peek(dist) ==
    LET r == peek(Lexer, dist) IN
    /\ SetLexer(r.L)
    /\ ret' = [op |-> "peek", dist |-> dist, scanned |-> FALSE, res |-> r.res]
    /\ promised' = IF r.res.ok THEN promised \cup {[n |-> dist, tok |-> r.res.val]}
                   ELSE promised
    /\ UNCHANGED <<input, out, kept, eofSeen, calls, type_map, genVars, itemVars>>

PeekAny == \E dist \in 0..MaxDist : Peek(dist)

NextLexer == NextToken \/ PeekAny

SpecLexer == InitLexer /\ [][NextLexer]_vars

-----------------------------------------------------------------------------
(* Claims about the lexer *)

IsPrefix(s, t) == Len(s) <= Len(t) /\ SubSeq(t, 1, Len(s)) = s

\* the tokens of the input in source order: what the scanner yields from the
\* start of the input when nothing is buffered, errors left out
RECURSIVE TokensFrom(_)
TokensFrom(L) ==
    LET r == next_token_no_check(L) IN
    IF r.res.ok /\ r.res.val = Eof THEN <<>>
    ELSE (IF r.res.ok THEN <<r.res.val>> ELSE <<>>) \o TokensFrom(r.L)

SourceTokens == TokensFrom([bytes |-> 0, lookahead |-> <<>>, line |-> 1, pos |-> 1])

\* C1, first half: at most Len(input) calls of next_token() return something
\* other than Eof (every such call uses up a byte of its own), so the caller
\* who goes on calling gets Eof after finitely many calls.
C1_EofReached == [](calls <= Len(input))

\* C1, second half: once next_token() has returned Eof, every later call of
\* next_token() returns Eof.
C1_EofSticks ==
    [][(eofSeen /\ ret'.op = "next_token") => (ret'.res.ok /\ ret'.res.val = Eof)]_vars

\* C1: for every finite input, finitely many next_token() calls reach one that
\* returns Eof, and every next_token() call after it returns Eof too.
C1_EofReachedAndSticks == C1_EofReached /\ C1_EofSticks

\* C1 witness: next_token() has returned Eof after it returned two tokens
C1_Witness ==
    /\ eofSeen
    /\ ret.op = "next_token"
    /\ ret.res.ok /\ ret.res.val = Eof
    /\ Len(out) >= 2

\* C2: lookahead neither consumes nor reorders: every token peek(k) returned
\* was the token the (k+1)-th following next_token() call returned, and the
\* tokens next_token() returns are the tokens of the input in source order.
C2_LookaheadInOrder ==
    /\ kept
    /\ IsPrefix(out, SourceTokens)
    /\ eofSeen => out = SourceTokens

\* C3: get_line() is 1 plus the number of newline bytes consumed so far.
C3_LineCountsNewlines ==
    line = 1 + Cardinality({ i \in 1..bytes : input[i] = "\n" })

C4_IdentChars == Lower \cup Upper \cup AsciiDigit \cup {"_"}

C4_Keywords ==
    { <<"f","n">>, <<"e","x","t","e","r","n">>, <<"l","e","t">>,
      <<"r","e","t","u","r","n">> }

C4_KeywordToken(s) ==
    CASE s = <<"f","n">> -> "Def"
      [] s = <<"e","x","t","e","r","n">> -> "Extern"
      [] s = <<"l","e","t">> -> "Let"
      [] s = <<"r","e","t","u","r","n">> -> "Return"

\* the token that the specification's rule gives for the run of identifier
\* characters that starts at byte i of the input
C4_RunEnd(i) ==
    CHOOSE j \in i..Len(input) :
        /\ \A k \in i..j : input[k] \in C4_IdentChars
        /\ j < Len(input) => input[j + 1] \notin C4_IdentChars

C4_RunToken(i) ==
    LET s == SubSeq(input, i, C4_RunEnd(i)) IN
    IF s \in C4_Keywords THEN Tok(C4_KeywordToken(s)) ELSE Identifier(s)

C4_SampleTokens ==
    << Tok("Def"), Identifier(<<"f","o","o">>), Tok("OpenParen"), Identifier(<<"x">>),
       Tok("Colon"), Identifier(<<"i","3","2">>), Tok("CloseParen"),
       Identifier(<<"i","3","2">>), Tok("OpenBracket"), Tok("Return"),
       Identifier(<<"x">>), Tok("Plus"), Integer(<<"1">>), Tok("SemiColon"),
       Tok("CloseBracket") >>

\* C4: when the scanner stands at a letter or '_', the token is the longest
\* run of letters, digits and '_' from there: a keyword token exactly for the
\* spellings fn, extern, let, return, else an Identifier carrying the run; and
\* the sample program lexes to the fifteen tokens of the specification, then Eof.
C4_IdentifierRule ==
    /\ \A i \in 1..Len(input) :
          (input[i] \in Lower \cup Upper \cup {"_"}) =>
              LET r == next_token_no_check(
                           [bytes |-> i - 1, lookahead |-> <<>>, line |-> 1, pos |-> 1])
              IN  /\ r.res.ok
                  /\ r.res.val = C4_RunToken(i)
                  /\ r.L.bytes = C4_RunEnd(i)
    /\ (ret.op = "next_token" /\ ret.scanned /\ ret.res.ok
          /\ ret.res.val.kind \in {"Identifier", "Def", "Extern", "Let", "Return"}) =>
              \E i \in 1..bytes :
                  /\ input[i] \in Lower \cup Upper \cup {"_"}
                  /\ C4_RunEnd(i) = bytes
                  /\ ret.res.val = C4_RunToken(i)
    /\ input = SampleFn =>
          /\ IsPrefix(out, C4_SampleTokens)
          /\ eofSeen => out = C4_SampleTokens

\* C4 witness: the sample program has been lexed to its end
C4_Witness ==
    /\ input = SampleFn
    /\ eofSeen
    /\ out = C4_SampleTokens
    /\ ret.op = "next_token"

-----------------------------------------------------------------------------
(* The expression parser under test: Parser::expr on the bytes of one      *)
(* expression, with the names a..e and f in the symbol table.              *)

\* the operators of an expression, as bytes
OpChars == {"<", "+", "-", "*"}

\* the primaries of the enumerated expressions, by position
Letters == <<"a", "b", "c", "d", "e", "g">>

\* the names the symbol table holds: five variables and a function
ExprSymbols ==
    [name \in {<<"a">>, <<"b">>, <<"c">>, <<"d">>, <<"e">>, <<"g">>, <<"f">>} |-> I64]

\* the bytes of the expression a op1 b op2 c ...
Flat(ops) ==
    [i \in 1..(2 * Len(ops) + 1) |->
        IF i % 2 = 1 THEN Letters[(i + 1) \div 2] ELSE ops[i \div 2]]

FlatInputs == { Flat(ops) : ops \in UNION { [1..n -> OpChars] : n \in 0..MaxOps } }

RECURSIVE Show(_)
RECURSIVE ShowAll(_)
\* an Expr (src/ast.rs) written out in prefix form
Show(e) ==
    CASE e.kind = "Variable" -> <<"$">> \o e.args[1]
      [] e.kind = "Integer" -> <<"#">> \o e.args[1]
      [] e.kind = "Float" -> <<"~">> \o e.args[1]
      [] e.kind = "Binary" ->
           <<"(", e.args[1]>> \o Show(e.args[2]) \o Show(e.args[3]) \o <<")">>
      [] e.kind = "Call" -> <<"call">> \o e.args[1] \o <<"[">> \o ShowAll(e.args[2]) \o <<"]">>
      [] e.kind = "Block" -> <<"{">> \o ShowAll(e.args[1]) \o <<"}">>
      [] e.kind = "Return" -> <<"return">> \o ShowAll(e.args[1]) \o <<";">>
      [] e.kind = "Let" -> <<"let">> \o e.args[1] \o <<"=">> \o ShowAll(e.args[2]) \o <<";">>
      [] e.kind = "Assign" -> <<"set">> \o e.args[1] \o <<"=">> \o Show(e.args[2]) \o <<";">>

ShowAll(es) == IF es = <<>> THEN <<>> ELSE Show(Head(es)) \o ShowAll(Tail(es))

\* expressions with blanks, numerals, parentheses and calls, and their trees
ExprSamples ==
    { [src |-> <<"1"," ","+"," ","2"," ","*"," ","3">>,
       tree |-> <<"(","Plus","#","1","(","Times","#","2","#","3",")",")">>],
      [src |-> <<"a"," ","<"," ","b"," ","+"," ","c">>,
       tree |-> <<"(","LessThan","$","a","(","Plus","$","b","$","c",")",")">>],
      [src |-> <<"a"," ","-"," ","b"," ","-"," ","c">>,
       tree |-> <<"(","Minus","(","Minus","$","a","$","b",")","$","c",")">>],
      [src |-> <<"(","a","+","b",")","*","c">>,
       tree |-> <<"(","Times","(","Plus","$","a","$","b",")","$","c",")">>],
      [src |-> <<"a","*","(","b","-","c",")","<","d">>,
       tree |-> <<"(","LessThan","(","Times","$","a","(","Minus","$","b","$","c",")",")",
                  "$","d",")">>],
      [src |-> <<"f","(","a","+","b","*","c",","," ","1",")","-","2",".","5">>,
       tree |-> <<"(","Minus","call","f","[","(","Plus","$","a","(","Times","$","b","$","c",
                  ")",")","#","1","]","~","2",".","5",")">>] }

ExprInputs == FlatInputs \cup { s.src : s \in ExprSamples }

\* fn new (of Parser) on the bytes of one expression, the symbols declared
InitExpr ==
    /\ input \in ExprInputs
    /\ NewLexer
    /\ NoCalls
    /\ type_map = ExprSymbols
    /\ SetGenerator(NewGenerator)
    /\ NoItem
    /\ status = "parsing"

\* the parser the variables hold
Parser == [type_map |-> type_map, lexer |-> Lexer]

SetParser(P) ==
    /\ SetLexer(P.lexer)
    /\ type_map' = P.type_map

\* what an operation reports: Ok(()) or its error
Outcome(res) == IF res.ok THEN Ok(<<>>) ELSE res

\* a call of Parser::expr
CallExpr ==
    /\ report.op = "none"
    /\ \E r \in {self_expr(Parser)} :
       /\ SetParser(r.P)
       /\ ast' = IF r.res.ok THEN <<r.res.val>> ELSE <<>>
       /\ report' = [op |-> "expr", res |-> Outcome(r.res)]
    /\ UNCHANGED <<input, obsVars, genVars, builder, status>>

NextExpr == CallExpr

SpecExpr == InitExpr /\ [][NextExpr]_vars

-----------------------------------------------------------------------------
(* Claims about the expression parser *)

\* the precedence levels of the reference grammar
RefPrecedence(c) ==
    CASE c = "<" -> 10
      [] c = "+" -> 20
      [] c = "-" -> 20
      [] c = "*" -> 40

RefOpName(c) ==
    CASE c = "<" -> "LessThan"
      [] c = "+" -> "Plus"
      [] c = "-" -> "Minus"
      [] c = "*" -> "Times"

RECURSIVE RefTree(_, _, _)
\* the tree of the reference grammar for the primaries lo..hi of a flat
\* expression: its root is the last operator of the lowest precedence
RefTree(src, lo, hi) ==
    IF lo = hi THEN <<"$", src[2 * lo - 1]>>
    ELSE LET k == CHOOSE k \in lo..(hi - 1) :
                     \A m \in lo..(hi - 1) :
                        \/ RefPrecedence(src[2 * m]) > RefPrecedence(src[2 * k])
                        \/ /\ RefPrecedence(src[2 * m]) = RefPrecedence(src[2 * k])
                           /\ m <= k
         IN  <<"(", RefOpName(src[2 * k])>> \o RefTree(src, lo, k)
                \o RefTree(src, k + 1, hi) \o <<")">>

ExpectedTree(src) ==
    IF \E s \in ExprSamples : s.src = src
    THEN (CHOOSE s \in ExprSamples : s.src = src).tree
    ELSE RefTree(src, 1, (Len(src) + 1) \div 2)

\* C5: Parser::expr returns, for every expression of primaries joined by
\* <, +, -, *, the tree of the reference grammar: * binds tighter than + and -,
\* which bind tighter than <, and equal precedence groups to the left
C5_PrecedenceClimbing ==
    report.op = "expr" =>
        /\ report.res.ok
        /\ ast # <<>>
        /\ Show(ast[1]) = ExpectedTree(input)
        /\ bytes = Len(input)

\* the three expressions of the claim have been parsed, and an enumerated one
\* that mixes the three levels
C5_Witness ==
    /\ report.op = "expr"
    /\ report.res.ok
    /\ \/ input = Flat(<<"<", "+", "*">>) /\ ast[1].kind = "Binary"
       \/ input = <<"a"," ","-"," ","b"," ","-"," ","c">> /\ ast[1].args[2].kind = "Binary"

-----------------------------------------------------------------------------
(* Lowering under test: FunctionGenerator::expr on one expression, inside  *)
(* a function that has one parameter of every value type, after            *)
(* init_essential_lib and the declaration of callees of 0..MaxParams       *)
(* parameters.                                                             *)

IntTypes == {I8, I16, I32, I64}

FloatTypes == {F32, F64}

ValueTypes == <<BOOL, I8, I16, I32, I64, F32, F64>>

\* the variable of a type: vbool, vi8, ... vf64
VarName(type_) == <<"v">> \o TypeName(type_)

Var(type_) == Expr("Variable", <<VarName(type_)>>, type_)

\* the callee of n parameters: f0, f1, ...; p0 returns nothing
Digit == <<"0", "1", "2", "3", "4", "5", "6", "7", "8", "9">>

Callee(n) == <<"f", Digit[n + 1]>>

Procedure == <<"p", "0">>

CalleeProto(n) ==
    Prototype(Callee(n), [i \in 1..n |-> Parameter(<<"x", Digit[i + 1]>>, I64)], I64)

RECURSIVE DeclareCallees(_, _)
DeclareCallees(G, n) ==
    IF n > MaxParams THEN gen_prototype(G, Prototype(Procedure, <<>>, VOID), "Import").G
    ELSE DeclareCallees(gen_prototype(G, CalleeProto(n), "Import").G, n + 1)

\* the generator when the body is lowered
LowerGenerator == DeclareCallees(init_essential_lib(NewGenerator).G, 0)

\* the function generator when the body is lowered: fn function up to
\* generator.expr, for the parameters vbool..vf64
LowerBuilder ==
    create_params(NewBuilder(LowerGenerator.functions, LowerGenerator.variable_builder),
                  [i \in 1..Len(ValueTypes) |->
                      Parameter(VarName(ValueTypes[i]), ValueTypes[i])], 1)

\* operands: a variable of every type, the two literals the parser types,
\* calls with the right and the wrong number of arguments, a name not in scope
IntLit(numeral) == Expr("Integer", <<numeral>>, I64)

FloatLit(numeral) == Expr("Float", <<numeral>>, F64)

Call(name, call_args, type_) == Expr("Call", <<name, call_args>>, type_)

SimpleOperands ==
    { Var(ValueTypes[i]) : i \in 1..Len(ValueTypes) }
        \cup { IntLit(<<"1">>), FloatLit(<<"2", ".", "5">>) }

CallArgs == { Var(I64), IntLit(<<"1">>), Call(Callee(0), <<>>, I64),
              Call(Callee(0), <<IntLit(<<"1">>)>>, I64) }

Calls ==
    { Call(name, call_args, I64) :
        name \in { Callee(n) : n \in 0..MaxParams } \cup {Procedure, <<"h">>},
        call_args \in UNION { [1..n -> CallArgs] : n \in 0..MaxArgs } }

Binaries ==
    { Expr("Binary", <<op, l, r>>, l.type_) :
        op \in {"Plus", "Minus", "Times", "LessThan"},
        l \in SimpleOperands, r \in SimpleOperands }

Statements ==
    { Expr("Return", << <<e>> >>, VOID) : e \in Calls }
        \cup { Expr("Binary", <<"Plus", Var(I64), e>>, I64) : e \in Calls }
        \cup { Expr("Return", << <<>> >>, VOID),
               Expr("Variable", << <<"u">> >>, I64),
               Expr("Let", << <<"n">>, <<IntLit(<<"1">>)>> >>, I64),
               Expr("Let", << <<"n">>, <<>> >>, ANY),
               Expr("Assign", << VarName(I64), IntLit(<<"1">>) >>, VOID),
               Expr("Block", << <<IntLit(<<"1">>), Expr("Return", << <<>> >>, VOID),
                                 IntLit(<<"2">>)>> >>, VOID),
               Expr("Block", << <<>> >>, VOID),
               Expr("Integer", << <<"1">> >>, F64),
               Expr("Float", << <<"1", ".", "0">> >>, F32),
               Expr("Float", << <<"1", ".", "0">> >>, I64),
               Expr("Integer", << <<"1">> >>, VOID) }

LowerInputs == SimpleOperands \cup Calls \cup Binaries \cup Statements

InitLower ==
    /\ input = <<>>
    /\ NewLexer
    /\ NoCalls
    /\ type_map = EmptyMap
    /\ SetGenerator(LowerGenerator)
    /\ ast \in { <<e>> : e \in LowerInputs }
    /\ builder = LowerBuilder
    /\ report = NoReport
    /\ status = "lowering"

\* a call of FunctionGenerator::expr
LowerExpr ==
    /\ report.op = "none"
    /\ \E r \in {gen_expr(builder, ast[1])} :
       /\ builder' = r.FG
       /\ variable_builder' = r.FG.index
       /\ report' = [op |-> "lower", res |-> Outcome(r.res)]
    /\ UNCHANGED <<lexVars, obsVars, type_map, functions, module, ast, status>>

NextLower == LowerExpr

SpecLower == InitLower /\ [][NextLower]_vars

-----------------------------------------------------------------------------
(* Claims about lowering *)

\* a call whose argument count is not the parameter count recorded for its callee
WrongCount(e) ==
    /\ e.kind = "Call"
    /\ e.args[1] \in DOMAIN functions
    /\ functions[e.args[1]].param_count # Len(e.args[2])

\* the call site lowering reaches first, when nothing is emitted before it:
\* the expression itself, the operand of a return, the right operand of a sum
\* whose left operand is a variable
FirstCall(e) ==
    CASE e.kind = "Call" -> <<e>>
      [] e.kind = "Return" /\ e.args[1] # <<>> ->
           IF e.args[1][1].kind = "Call" THEN <<e.args[1][1]>> ELSE <<>>
      [] e.kind = "Binary" ->
           IF e.args[2].kind = "Variable" /\ e.args[3].kind = "Call"
           THEN <<e.args[3]>> ELSE <<>>
      [] OTHER -> <<>>

IsError(res, kind) == ~res.ok /\ res.err.kind = kind

Emitted(op) == { i \in 1..Len(builder.ins) : builder.ins[i].op = op }

\* C8: lowering a Call whose argument count differs from the callee's recorded
\* parameter count returns WrongArgumentCount and emits nothing for that call
\* site: no argument is lowered, the callee is not declared in the function,
\* no call instruction is emitted
C8_WrongArgumentCount ==
    (report.op = "lower" /\ FirstCall(ast[1]) # <<>>) =>
        LET e == FirstCall(ast[1])[1] IN
        /\ WrongCount(e) =>
              /\ IsError(report.res, "WrongArgumentCount")
              /\ builder.ins = LowerBuilder.ins
              /\ builder.decls = {}
              /\ builder.index = LowerBuilder.index
        /\ (/\ e.kind = "Call" /\ ~WrongCount(e) /\ e.args[1] \in DOMAIN functions
            /\ e.args[2] # <<>> /\ WrongCount(e.args[2][1])) =>
              /\ IsError(report.res, "WrongArgumentCount")
              /\ builder.ins = LowerBuilder.ins
              /\ builder.decls = {functions[e.args[1]].id}

\* calls with too few and with too many arguments have been lowered, at the
\* top and as an argument
C8_Witness ==
    /\ report.op = "lower"
    /\ IsError(report.res, "WrongArgumentCount")
    /\ \/ ast[1] = Call(Callee(0), <<IntLit(<<"1">>)>>, I64)
       \/ ast[1] = Call(Callee(2), <<Var(I64)>>, I64)
       \/ ast[1] = Call(Callee(1), <<Call(Callee(0), <<IntLit(<<"1">>)>>, I64)>>, I64)

\* C9: lowering Binary(+, l, r) with l and r of different integer types fails
\* with MismatchedTypes(type of l, type of r), and no add is emitted
C9_IntegerMismatch ==
    (/\ report.op = "lower"
     /\ ast[1].kind = "Binary"
     /\ ast[1].args[1] = "Plus"
     /\ ast[1].args[2].type_ \in IntTypes
     /\ ast[1].args[3].type_ \in IntTypes
     /\ ast[1].args[2].type_ # ast[1].args[3].type_) =>
        /\ IsError(report.res, "MismatchedTypes")
        /\ report.res.err.val = <<ast[1].args[2].type_, ast[1].args[3].type_>>
        /\ Emitted("iadd") = {}

\* C10: lowering Binary(+, l, r) with one operand f32 and the other f64
\* succeeds: it emits a call of the f32-to-f64 cast function and then an fadd
C10_FloatWidening ==
    (/\ report.op = "lower"
     /\ ast[1].kind = "Binary"
     /\ ast[1].args[1] = "Plus"
     /\ {ast[1].args[2].type_, ast[1].args[3].type_} = {F32, F64}) =>
        /\ report.res.ok
        /\ cast_name(F32, F64) \in DOMAIN functions
        /\ \E i \in Emitted("call") :
              /\ builder.ins[i].ty = functions[cast_name(F32, F64)].id
              /\ \E j \in Emitted("fadd") : i < j

-----------------------------------------------------------------------------
(* The driver under test: the loop of main (src/main.rs) on a program made *)
(* of up to MaxItems top-level items.                                      *)

\* a function with an empty body: fn foo() {}
ItemEmptyBody ==
    <<"f","n"," ","f","o","o","(",")"," ","{","}">>

\* a function of no parameters: fn foo() i64 { return 1; }
ItemFoo ==
    <<"f","n"," ","f","o","o","(",")"," ","i","6","4"," ","{"," ","r","e","t",
      "u","r","n"," ","1",";"," ","}">>

\* a function with a parameter of its own name: fn foo(foo: i64) i64 { return foo; }
ItemFooParam ==
    <<"f","n"," ","f","o","o","(","f","o","o",":"," ","i","6","4",")"," ","i",
      "6","4"," ","{"," ","r","e","t","u","r","n"," ","f","o","o",";"," ",
      "}">>

\* a function whose body names an undefined identifier: fn foo() i64 { return y; }
ItemFooUndefined ==
    <<"f","n"," ","f","o","o","(",")"," ","i","6","4"," ","{"," ","r","e","t",
      "u","r","n"," ","y",";"," ","}">>

\* a function that calls foo: fn bar(a: i64) i64 {   return a + foo(); }
ItemBar ==
    <<"f","n"," ","b","a","r","(","a",":"," ","i","6","4",")"," ","i","6","4",
      " ","{","\n"," "," ","r","e","t","u","r","n"," ","a"," ","+"," ","f",
      "o","o","(",")",";","\n","}">>

\* the mixed-width sum of the specification: fn mix(a: f32, b: f64) f64 { return a + b; }
ItemMix ==
    <<"f","n"," ","m","i","x","(","a",":"," ","f","3","2",","," ","b",":"," ",
      "f","6","4",")"," ","f","6","4"," ","{"," ","r","e","t","u","r","n"," ",
      "a"," ","+"," ","b",";"," ","}">>

\* a declaration of foo: extern foo() i64
ItemExtern ==
    <<"e","x","t","e","r","n"," ","f","o","o","(",")"," ","i","6","4">>

\* a semicolon: ;
ItemSemiColon ==
    <<";">>

\* a byte no token starts with: @
ItemUnknownChar ==
    <<"@">>

\* a token no item starts with: 1
ItemStray ==
    <<"1">>

\* a function with two parameters of one name: fn dup(a: i64, a: i64) i64 { return a; }
ItemDup ==
    <<"f","n"," ","d","u","p","(","a",":"," ","i","6","4",","," ","a",":"," ",
      "i","6","4",")"," ","i","6","4"," ","{"," ","r","e","t","u","r","n"," ",
      "a",";"," ","}">>

\* a function that declares a variable named like its parameter: fn sum(a: i64) i64 { let a = 1; return a; }
ItemLetParam ==
    <<"f","n"," ","s","u","m","(","a",":"," ","i","6","4",")"," ","i","6","4",
      " ","{"," ","l","e","t"," ","a"," ","="," ","1",";"," ","r","e","t","u",
      "r","n"," ","a",";"," ","}">>

\* a function that declares a variable with no type and no value: fn f() { let x; }
ItemLetBare ==
    <<"f","n"," ","f","(",")"," ","{"," ","l","e","t"," ","x",";"," ","}">>

\* the same with the closing brace missing: fn f() { let x;
ItemLetOpen ==
    <<"f","n"," ","f","(",")"," ","{"," ","l","e","t"," ","x",";">>

\* a function that names x: fn g() { x; }
ItemUseX ==
    <<"f","n"," ","g","(",")"," ","{"," ","x",";"," ","}">>

\* a function with a parameter of an unknown type: fn bad(a: int) i64 { return 1; }
ItemBadType ==
    <<"f","n"," ","b","a","d","(","a",":"," ","i","n","t",")"," ","i","6","4",
      " ","{"," ","r","e","t","u","r","n"," ","1",";"," ","}">>

\* a function that ends after the value of its return: fn one() i64 { return 1
ItemNoSemiColon ==
    <<"f","n"," ","o","n","e","(",")"," ","i","6","4"," ","{"," ","r","e","t",
      "u","r","n"," ","1">>

\* a definition with an unknown byte for a name: fn @
ItemNoName ==
    <<"f","n"," ","@">>

\* a function that declares and initializes x: fn f() { let x = 1; }
ItemLetX ==
    <<"f","n"," ","f","(",")"," ","{"," ","l","e","t"," ","x"," ","="," ","1",
      ";"," ","}">>

\* another function that declares x: fn g() { let x = 2; }
ItemLetXToo ==
    <<"f","n"," ","g","(",")"," ","{"," ","l","e","t"," ","x"," ","="," ","2",
      ";"," ","}">>

\* a function whose semicolon comes after the brace: fn foo() i64 { return 1 };
ItemFooLate ==
    <<"f","n"," ","f","o","o","(",")"," ","i","6","4"," ","{"," ","r","e","t",
      "u","r","n"," ","1"," ","}",";">>

Items ==
    { ItemEmptyBody,
      ItemFoo,
      ItemFooParam,
      ItemFooUndefined,
      ItemBar,
      ItemMix,
      ItemExtern,
      ItemSemiColon,
      ItemUnknownChar,
      ItemStray,
      ItemDup,
      ItemLetParam,
      ItemLetBare,
      ItemLetOpen,
      ItemUseX,
      ItemBadType,
      ItemNoSemiColon,
      ItemNoName,
      ItemLetX,
      ItemLetXToo,
      ItemFooLate }


RECURSIVE Join(_)
\* the items of a program, a blank between them
Join(items) ==
    IF items = <<>> THEN <<>>
    ELSE IF Len(items) = 1 THEN items[1]
    ELSE items[1] \o <<" ">> \o Join(Tail(items))

Programs == { Join(items) : items \in UNION { [1..n -> Items] : n \in 0..MaxItems } }

\* main up to the loop: Lexer::new, Parser::new, Generator::new,
\* init_essential_lib
InitDriver ==
    /\ input \in Programs
    /\ NewLexer
    /\ NoCalls
    /\ type_map = EmptyMap
    /\ SetGenerator(init_essential_lib(NewGenerator).G)
    /\ NoItem
    /\ status = "running"

\* the generator the variables hold
Generator == [functions |-> functions, module |-> module,
              variable_builder |-> variable_builder]

PutGenerator(G) ==
    /\ functions' = G.functions
    /\ module' = G.module
    /\ variable_builder' = G.variable_builder

\* impl Display for Token: the pieces written, or the panic of todo!()
Token_fmt(token) ==
    CASE token.kind = "Eof" -> Panic("not yet implemented")
      [] token.kind = "Def" -> Ok(<<"fn">>)
      [] token.kind = "Extern" -> Ok(<<"extern">>)
      [] token.kind = "Identifier" -> Ok(<<"identifier: ">> \o token.val)
      [] token.kind = "Float" -> Panic("not yet implemented")
      [] token.kind = "Integer" -> Panic("not yet implemented")
      [] token.kind = "LessThan" -> Ok(<<"<">>)
      [] token.kind = "Minus" -> Ok(<<"-">>)
      [] token.kind = "Plus" -> Ok(<<"+">>)
      [] token.kind = "Star" -> Ok(<<"*">>)
      [] token.kind = "SemiColon" -> Ok(<<";">>)
      [] token.kind = "OpenParen" -> Ok(<<"(">>)
      [] token.kind = "CloseParen" -> Ok(<<")">>)
      [] token.kind = "Comma" -> Ok(<<",">>)
      [] token.kind = "OpenBracket" -> Ok(<<"{">>)
      [] token.kind = "CloseBracket" -> Ok(<<"}">>)
      [] token.kind = "Return" -> Ok(<<"return">>)
      [] token.kind = "Equal" -> Ok(<<"=">>)
      [] token.kind = "Let" -> Ok(<<"let">>)
      [] token.kind = "Colon" -> Ok(<<":">>)

\* impl Debug for Error: the pieces written, or the panic of a token's
\* display; the errors of the libraries format themselves
Error_fmt(error) ==
    CASE error.kind = "UnknownChar" -> Ok(<<"unknown char ", error.val>>)
      [] error.kind = "Undefined" -> Ok(<<"undefined ", error.val>>)
      [] error.kind = "Unexpected" -> Ok(<<"unexpected ", error.val>>)
      [] error.kind = "WrongArgumentCount" -> Ok(<<"wrong argument count">>)
      [] error.kind = "FunctionRedef" -> Ok(<<"redefinition of function">>)
      [] error.kind = "VariableRedef" -> Ok(<<"redefinition of a variable">>)
      [] error.kind = "FunctionRedefWithDifferentParams" ->
           Ok(<<"redefinition of function with different number of parameters">>)
      [] error.kind = "UnexpectedToken" ->
           With(Token_fmt(error.val[1]), LAMBDA expected :
           With(Token_fmt(error.val[2]), LAMBDA got :
               IF ~expected.ok THEN expected
               ELSE IF ~got.ok THEN got
               ELSE Ok(<<"unexpected token, was expecting '">> \o expected.val
                       \o <<"' but got '">> \o got.val \o <<"'">>)))
      [] error.kind = "MismatchedTypes" ->
           Ok(<<"mismatched type, was expecting '", error.val[1],
                "' but got '", error.val[2], "'">>)
      [] OTHER -> Ok(<<error.kind, error.val>>)

\* eprintln!("[{}:{}:{}] Error: {:?}", ..): the error is reported, unless
\* formatting it panics
Eprintln(op, res) ==
    \E s \in {Error_fmt(res.err)} :
        /\ report' = [op |-> op, res |-> IF s.ok THEN res ELSE s]
        /\ status' = IF s.ok THEN status ELSE "aborted"

\* Err(error) of parser.lexer.peek(0): the error is printed, the loop goes on
DriverLexError ==
    \E top \in {self_lexer_peek(Parser, 0)} :
        /\ status = "running"
        /\ ~top.res.ok
        /\ SetParser(top.P)
        /\ Eprintln("peek", top.res)
        /\ UNCHANGED <<input, obsVars, genVars, ast, builder>>

\* Token::Eof => break
DriverEof ==
    \E top \in {self_lexer_peek(Parser, 0)} :
        /\ status = "running"
        /\ top.res.ok
        /\ top.res.val.kind = "Eof"
        /\ SetParser(top.P)
        /\ status' = "finished"
        /\ report' = [op |-> "eof", res |-> Ok(<<>>)]
        /\ UNCHANGED <<input, obsVars, genVars, ast, builder>>

\* the Err(error) arm of an item: parser.lexer.next_token()?, then the error is
\* printed; a panic aborts the process where it is raised
Recover(P, op, res) ==
    IF res.err.kind = "Panic"
    THEN /\ SetParser(P)
         /\ report' = [op |-> op, res |-> res]
         /\ status' = "aborted"
    ELSE \E n \in {next_token(P.lexer)} :
         /\ SetParser([P EXCEPT !.lexer = n.L])
         /\ IF n.res.ok
            THEN Eprintln(op, res)
            ELSE /\ report' = [op |-> op, res |-> n.res]
                 /\ status' = "failed"

\* Token::SemiColon => parser.lexer.next_token()?
DriverSemiColon ==
    \E top \in {self_lexer_peek(Parser, 0)} :
        /\ status = "running"
        /\ top.res.ok
        /\ top.res.val.kind = "SemiColon"
        /\ \E n \in {next_token(top.P.lexer)} :
              /\ SetParser([top.P EXCEPT !.lexer = n.L])
              /\ report' = [op |-> "semicolon", res |-> Outcome(n.res)]
              /\ status' = IF n.res.ok THEN status ELSE "failed"
        /\ UNCHANGED <<input, obsVars, genVars, ast, builder>>

\* Token::Def => parser.definition().and_then(|d| generator.function(d))
DriverDef ==
    \E top \in {self_lexer_peek(Parser, 0)} :
        /\ status = "running"
        /\ top.res.ok
        /\ top.res.val.kind = "Def"
        /\ \E d \in {self_definition(top.P)} :
              IF ~d.res.ok
              THEN /\ Recover(d.P, "definition", d.res)
                   /\ UNCHANGED <<genVars, ast, builder>>
              ELSE \E g \in {gen_function(Generator, d.res.val)} :
                   /\ PutGenerator(g.G)
                   /\ ast' = <<d.res.val>>
                   /\ builder' = g.FG
                   /\ IF g.res.ok
                      THEN /\ SetParser(d.P)
                           /\ report' = [op |-> "definition", res |-> Ok(<<>>)]
                           /\ UNCHANGED status
                      ELSE Recover(d.P, "definition", g.res)
        /\ UNCHANGED <<input, obsVars>>

\* Token::Extern => parser.extern_().and_then(|p| generator.prototype(&p, Import))
DriverExtern ==
    \E top \in {self_lexer_peek(Parser, 0)} :
        /\ status = "running"
        /\ top.res.ok
        /\ top.res.val.kind = "Extern"
        /\ \E e \in {self_extern_(top.P)} :
              IF ~e.res.ok
              THEN /\ Recover(e.P, "extern", e.res)
                   /\ UNCHANGED <<genVars, ast, builder>>
              ELSE \E g \in {gen_prototype(Generator, e.res.val, "Import")} :
                   /\ PutGenerator(g.G)
                   /\ UNCHANGED <<ast, builder>>
                   /\ IF g.res.ok
                      THEN /\ SetParser(e.P)
                           /\ report' = [op |-> "extern", res |-> Ok(<<>>)]
                           /\ UNCHANGED status
                      ELSE Recover(e.P, "extern", g.res)
        /\ UNCHANGED <<input, obsVars>>

\* _ => return Err(Error::Unexpected("top level token"))
DriverOther ==
    \E top \in {self_lexer_peek(Parser, 0)} :
        /\ status = "running"
        /\ top.res.ok
        /\ top.res.val.kind \notin {"Eof", "SemiColon", "Def", "Extern"}
        /\ SetParser(top.P)
        /\ report' = [op |-> "top", res |-> Err(Error("Unexpected", "top level token"))]
        /\ status' = "failed"
        /\ UNCHANGED <<input, obsVars, genVars, ast, builder>>

NextDriver ==
    \/ DriverLexError
    \/ DriverEof
    \/ DriverSemiColon
    \/ DriverDef
    \/ DriverExtern
    \/ DriverOther

SpecDriver == InitDriver /\ [][NextDriver]_vars

-----------------------------------------------------------------------------
(* Claims about definitions *)

\* C6: a block with zero statements is valid: `fn foo() {}` is accepted by
\* Parser::definition, with a Block of no statements as its body
C6_EmptyBlock ==
    (/\ report.op = "definition"
     /\ IsPrefix(ItemEmptyBody, input)
     /\ bytes <= Len(ItemEmptyBody) + 1) =>
        /\ ast # <<>>
        /\ ast[1].body = Expr("Block", << <<>> >>, VOID)
        /\ ast[1].prototype = Prototype(<<"f", "o", "o">>, <<>>, VOID)

\* a function of this name has been defined in the IR module
Accepted(name) ==
    \E i \in 1..Len(module.declared) :
        module.declared[i].name = name /\ (i - 1) \in module.defined

\* the name after `fn` when the loop is at a definition: <<name>> or <<>>
DefinitionAhead ==
    IF status = "running" /\ peek(Lexer, 0).res = Ok(Tok("Def"))
                          /\ peek(Lexer, 1).res.ok
                          /\ peek(Lexer, 1).res.val.kind = "Identifier"
    THEN <<peek(Lexer, 1).res.val.val>>
    ELSE <<>>

\* C7: once a definition of a name has been accepted, processing a later
\* definition of that name fails with FunctionRedef and defines no function
C7_FunctionRedef ==
    [][(DefinitionAhead # <<>> /\ Accepted(DefinitionAhead[1])) =>
          /\ report'.op = "definition"
          /\ IsError(report'.res, "FunctionRedef")
          /\ module'.defined = module.defined]_vars


-----------------------------------------------------------------------------
(* Claims about the symbol table *)

\* the prototype of the definition the loop is at, as Parser::definition
\* reads it: <<prototype>>, or <<>> when there is none or it is rejected
PrototypeAhead ==
    IF DefinitionAhead = <<>> THEN <<>>
    ELSE With(self_prototype(self_eat(Parser, Tok("Def")).P), LAMBDA r :
              IF r.res.ok THEN <<r.res.val>> ELSE <<>>)

\* the names the generator has declared for user functions
UserFunctions ==
    { n \in DOMAIN functions : n \notin { cast_name(Casts[i][1], Casts[i][2]) : i \in 1..Len(Casts) } }

\* C11: after Parser::definition returns, no parameter name of that function
\* is left in the symbol table on its account, whether the body parsed or
\* failed; the function name it registers, and every function name registered
\* before, is in the symbol table with its return type afterwards
C11_ScopeDrained ==
    [][PrototypeAhead # <<>> =>
          /\ \A i \in 1..Len(PrototypeAhead[1].parameters) :
                (/\ PrototypeAhead[1].parameters[i].name \notin DOMAIN type_map
                 /\ PrototypeAhead[1].parameters[i].name
                        # PrototypeAhead[1].function_name)
                    => PrototypeAhead[1].parameters[i].name \notin DOMAIN type_map'
          /\ PrototypeAhead[1].function_name \in DOMAIN type_map'
          /\ type_map'[PrototypeAhead[1].function_name]
                = PrototypeAhead[1].return_type
          /\ \A n \in UserFunctions \cap DOMAIN type_map :
                n \in DOMAIN type_map' /\ type_map'[n] = type_map[n]]_vars


\* the prototype the loop is at, after `fn` or `extern`, as Parser::prototype
\* reads it: <<prototype>>, or <<>> when there is none or it is rejected
DeclarationAhead ==
    IF status = "running" /\ peek(Lexer, 0).res.ok
                          /\ peek(Lexer, 0).res.val.kind \in {"Def", "Extern"}
    THEN With(self_prototype(self_lexer_next_token(Parser).P), LAMBDA r :
              IF r.res.ok THEN <<r.res.val>> ELSE <<>>)
    ELSE <<>>

\* the name after `fn` or `extern` when the loop is at one: <<name>> or <<>>
NameAhead ==
    IF status = "running" /\ peek(Lexer, 0).res.ok
                          /\ peek(Lexer, 0).res.val.kind \in {"Def", "Extern"}
                          /\ peek(Lexer, 1).res.ok
                          /\ peek(Lexer, 1).res.val.kind = "Identifier"
    THEN <<peek(Lexer, 1).res.val.val>>
    ELSE <<>>

\* C12: a declaration of a name already in scope is rejected: a prototype that
\* Parser::prototype accepts has parameter names that differ from each other
\* and from every symbol in the table, a prototype of a name in the table
\* fails with FunctionRedef, and a `let` of a parameter's name fails with
\* VariableRedef
C12_NoRedeclaration ==
    [][/\ DeclarationAhead # <<>> =>
             \A i \in 1..Len(DeclarationAhead[1].parameters) :
                /\ DeclarationAhead[1].parameters[i].name \notin DOMAIN type_map
                /\ \A j \in 1..Len(DeclarationAhead[1].parameters) :
                      DeclarationAhead[1].parameters[i].name
                          = DeclarationAhead[1].parameters[j].name => i = j
       /\ (NameAhead # <<>> /\ NameAhead[1] \in DOMAIN type_map) =>
             IsError(report'.res, "FunctionRedef")
       /\ (bytes = 0 /\ IsPrefix(ItemLetParam, input)) =>
             IsError(report'.res, "VariableRedef")]_vars


-----------------------------------------------------------------------------
(* Claims about the types of the AST *)

RECURSIVE Typed(_)
\* no node of the expression e carries the type Any
Typed(e) ==
    /\ e.type_ # ANY
    /\ CASE e.kind = "Binary" -> Typed(e.args[2]) /\ Typed(e.args[3])
         [] e.kind = "Call" -> \A i \in 1..Len(e.args[2]) : Typed(e.args[2][i])
         [] e.kind = "Block" -> \A i \in 1..Len(e.args[1]) : Typed(e.args[1][i])
         [] e.kind \in {"Return", "Let"} ->
              \A i \in 1..Len(e.args[Len(e.args)]) : Typed(e.args[Len(e.args)][i])
         [] e.kind = "Assign" -> Typed(e.args[2])
         [] OTHER -> TRUE

\* C13: every node of every Function that Parser::definition returns, also
\* after a rejected item, carries a type other than Any
C13_NoAnyType ==
    ast # <<>> => Typed(ast[1].body)


\* C14: an identifier in type position that names no type makes the parser
\* return an error value: no item ends in the abort of from_string, and the
\* definition with a parameter of type `int` is rejected with an error
C14_UnknownTypeIsError ==
    /\ report.op \in {"definition", "extern"} =>
          ~(/\ IsError(report.res, "Panic")
            /\ report.res = Panic("not implemented"))
    /\ (/\ report.op = "definition"
        /\ IsPrefix(ItemBadType, input)
        /\ bytes <= Len(ItemBadType)) =>
          /\ ~report.res.ok
          /\ report.res.err.kind # "Panic"
          /\ status = "running"


-----------------------------------------------------------------------------
(* Claims about the driver *)

\* C15: every token has a display form: reporting an error, an
\* UnexpectedToken(expected, got) with any token the lexer produces as `got`
\* included, yields a string and never aborts
C15_TokensDisplay ==
    /\ report.res # Panic("not yet implemented")
    /\ (/\ report.op = "definition"
        /\ input = ItemNoSemiColon) =>
          /\ IsError(report.res, "UnexpectedToken")
          /\ report.res.err.val = <<Tok("SemiColon"), Eof>>


\* C16: an error raised while a `fn` or `extern` item is processed, and a
\* lexer error, is reported and the loop goes on: when the loop has ended
\* before Eof, the error is Unexpected("top level token")
C16_OnlyTopLevelEnds ==
    status \in {"failed", "aborted"} =>
        report.res = Err(Error("Unexpected", "top level token"))


-----------------------------------------------------------------------------
(* The generator under test: up to MaxCalls calls of Generator::prototype  *)
(* and Generator::function, after init_essential_lib, on the prototypes of *)
(* two names.                                                              *)

\* the parameter lists of the prototypes: none, one i64, one f64
ParameterLists ==
    { <<>>, <<Parameter(<<"a">>, I64)>>, <<Parameter(<<"a">>, F64)>> }

Prototypes ==
    { Prototype(name, params, ret_type) :
        name \in {<<"f">>, <<"g">>},
        params \in ParameterLists,
        ret_type \in {VOID, I64} }

\* a body that lowers, { return; }, and one that does not, { y; }
Bodies ==
    { Expr("Block", << <<Expr("Return", << <<>> >>, VOID)>> >>, VOID),
      Expr("Block", << <<Expr("Variable", << <<"y">> >>, I64)>> >>, VOID) }

InitGen ==
    /\ input = <<>>
    /\ NewLexer
    /\ NoCalls
    /\ type_map = EmptyMap
    /\ SetGenerator(init_essential_lib(NewGenerator).G)
    /\ NoItem
    /\ status = "generating"

\* what a call leaves: the generator, the result, and a panic aborts
Generated(G, op, res) ==
    /\ PutGenerator(G)
    /\ report' = [op |-> op, res |-> res]
    /\ status' = IF IsError(res, "Panic") THEN "aborted" ELSE status
    /\ calls' = calls + 1
    /\ UNCHANGED <<lexVars, ret, out, promised, kept, eofSeen, type_map>>

\* a call of Generator::prototype, as for an `extern` item
GenPrototype ==
    /\ status = "generating"
    /\ calls < MaxCalls
    /\ \E proto \in Prototypes :
       \E p \in {gen_prototype(Generator, proto, "Import")} :
          /\ Generated(p.G, "prototype", p.res)
          /\ ast' = <<proto>>
          /\ UNCHANGED builder

\* a call of Generator::function
GenFunction ==
    /\ status = "generating"
    /\ calls < MaxCalls
    /\ \E proto \in Prototypes, body \in Bodies :
       \E g \in {gen_function(Generator, Function(proto, body))} :
          /\ Generated(g.G, "function", g.res)
          /\ ast' = <<Function(proto, body)>>
          /\ builder' = g.FG

NextGen == GenPrototype \/ GenFunction

SpecGen == InitGen /\ [][NextGen]_vars

\* C17: Generator::prototype on a name follows the function-entry state
\* machine: an unknown name gets a new not-defined entry with the prototype's
\* parameter count and return presence; a known and defined name is
\* FunctionRedef; a known, not defined name with another parameter count is
\* FunctionRedefWithDifferentParams, with the same count it is the existing
\* id; in these three cases the function table is unchanged
C17_PrototypeStateMachine ==
    [][report'.op = "prototype" =>
          IF ast'[1].function_name \notin DOMAIN functions
          THEN /\ report'.res.ok
               /\ functions' = MapInsert(functions, ast'[1].function_name,
                      CompiledFunction(FALSE, report'.res.val,
                                       Len(ast'[1].parameters),
                                       IF ast'[1].return_type = VOID THEN 0 ELSE 1))
          ELSE /\ functions' = functions
               /\ IF functions[ast'[1].function_name].defined
                  THEN IsError(report'.res, "FunctionRedef")
                  ELSE IF functions[ast'[1].function_name].param_count
                             # Len(ast'[1].parameters)
                  THEN IsError(report'.res, "FunctionRedefWithDifferentParams")
                  ELSE report'.res = Ok(functions[ast'[1].function_name].id)]_vars


\* C18: a forward declaration works through the whole pipeline: after the
\* driver has accepted `extern foo() i64`, the definition
\* `fn foo() i64 { return 1; }` is accepted by parser and generator, and the
\* entry of foo moves from declared, not defined, to defined
C18_ForwardDeclaration ==
    [][(/\ input = Join(<<ItemExtern, ItemFoo>>)
        /\ report.op = "extern"
        /\ report.res.ok) =>
          /\ <<"f", "o", "o">> \in DOMAIN functions
          /\ ~functions[<<"f", "o", "o">>].defined
          /\ report'.op = "definition"
          /\ report'.res.ok
          /\ <<"f", "o", "o">> \in DOMAIN functions'
          /\ functions'[<<"f", "o", "o">>].defined
          /\ 8 \in module'.defined]_vars


\* the names "<from>-><to>" of the cast library
CastNames ==
    { cast_name(from, to) : from \in {I8, I16, I32, I64}, to \in {F32, F64} }

\* C19: after init_essential_lib the function table holds exactly the eight
\* entries of the cast library, each with one parameter, one return value and
\* defined = true
C19_CastLibrary ==
    /\ calls = 0 => DOMAIN functions = CastNames
    /\ \A n \in CastNames :
          /\ n \in DOMAIN functions
          /\ functions[n].param_count = 1
          /\ functions[n].return_count = 1
          /\ functions[n].defined


-----------------------------------------------------------------------------
(* Declarations under test: Parser::let_ on one `let` statement, with and  *)
(* without an annotation and an initializer, of a new and of a declared    *)
(* name.                                                                   *)

\* the symbols declared before the statement
LetSymbols == [name \in {<<"a">>, <<"b">>} |-> IF name = <<"a">> THEN I64 ELSE F32]

\* the initializers and their types
Initializers ==
    { [src |-> <<"1">>, type_ |-> I64],
      [src |-> <<"2", ".", "5">>, type_ |-> F64],
      [src |-> <<"a">>, type_ |-> I64],
      [src |-> <<"b">>, type_ |-> F32] }

\* a statement: the name, the annotation if any, the initializer if any
LetCases ==
    [name : {<<"x">>, <<"a">>},
     annotation : {<<>>} \cup { <<t>> : t \in {VOID, BOOL, I8, I16, I32, I64, F32, F64} },
     initializer : {<<>>} \cup { <<i>> : i \in Initializers }]

\* the bytes of a statement
LetSource(c) ==
    <<"l", "e", "t", " ">> \o c.name
    \o (IF c.annotation = <<>> THEN <<>>
        ELSE <<":", " ">> \o TypeName(c.annotation[1]))
    \o (IF c.initializer = <<>> THEN <<>>
        ELSE <<" ", "=", " ">> \o c.initializer[1].src)
    \o <<";">>

\* fn new (of Parser) on the bytes of one statement, the symbols declared
InitLet ==
    /\ input \in { LetSource(c) : c \in LetCases }
    /\ NewLexer
    /\ NoCalls
    /\ type_map = LetSymbols
    /\ SetGenerator(NewGenerator)
    /\ NoItem
    /\ status = "declaring"

\* a call of Parser::let_
CallLet ==
    /\ report.op = "none"
    /\ \E r \in {self_let_(Parser)} :
       /\ SetParser(r.P)
       /\ ast' = IF r.res.ok THEN <<r.res.val>> ELSE <<>>
       /\ report' = [op |-> "let", res |-> Outcome(r.res)]
    /\ UNCHANGED <<input, obsVars, genVars, builder, status>>

NextLet == CallLet

SpecLet == InitLet /\ [][NextLet]_vars

\* the statement the input holds
LetCase == CHOOSE c \in LetCases : LetSource(c) = input

\* the type a statement declares: the annotation, else the initializer's
DeclaredType(c) ==
    IF c.annotation # <<>> THEN c.annotation[1] ELSE c.initializer[1].type_

-----------------------------------------------------------------------------
(* Claims about Generator::function.                                       *)

\* the generator in which Generator::function lowers the body: after its
\* call of prototype, with the entry of the name marked defined
Entered(function) ==
    With(gen_prototype(Generator, function.prototype, "Export").G, LAMBDA G :
         IF function.prototype.function_name \in DOMAIN G.functions
         THEN [G EXCEPT !.functions[function.prototype.function_name].defined = TRUE]
         ELSE G)

\* generator.expr(&function.body) of Generator::function in the current state
Lowered(function) ==
    gen_expr(create_params(NewBuilder(Entered(function).functions,
                                      Entered(function).variable_builder),
                           function.prototype.parameters, 1),
             function.body)

\* Generator::function on this function reaches the lowering of the body,
\* and the lowering returns an error
LoweringFails(function) ==
    /\ signature_append_from_prototype(function.prototype, EmptySignature).ok
    /\ gen_prototype(Generator, function.prototype, "Export").res.ok
    /\ ~Lowered(function).res.ok
    /\ Lowered(function).res.err.kind # "Panic"

\* the function of this name has a body in the IR module
DefinedInModule(M, name) ==
    \E i \in 1..Len(M.declared) : M.declared[i].name = name /\ (i - 1) \in M.defined

\* C21: when the lowering of the body in Generator::function returns an
\* error, the name is absent from the function table afterwards, whether it
\* was there before the call or not, the builder has been finalized, the
\* function is not defined in the IR module, and the caller gets the error of
\* the lowering
C21_FailedBodyRollsBack ==
    [][(report'.op = "function" /\ LoweringFails(ast'[1])) =>
          /\ ast'[1].prototype.function_name \notin DOMAIN functions'
          /\ builder'.finalized
          /\ ~DefinedInModule(module', ast'[1].prototype.function_name)
          /\ report'.res = Lowered(ast'[1]).res]_vars

\* a function whose name was declared before, by a prototype, has failed in
\* its body: the declaration is still the imported one, the entry is gone
C21_Witness ==
    /\ report.op = "function"
    /\ IsError(report.res, "Undefined")
    /\ builder.finalized
    /\ ast[1].prototype.function_name \notin DOMAIN functions
    /\ \E i \in 1..Len(module.declared) :
          /\ module.declared[i].name = ast[1].prototype.function_name
          /\ module.declared[i].linkage = "Import"

-----------------------------------------------------------------------------
(* Function bodies under test: a block of up to MaxStatements statements   *)
(* is parsed by Parser::block and lowered by FunctionGenerator::expr in    *)
(* the builder of a function whose parameters are vbool..vf64.             *)

\* the statements: return; return 1; return vi64; 2; let n = 2; vi64 = 3; p0()
StatementTexts ==
    << <<"r","e","t","u","r","n">>,
       <<"r","e","t","u","r","n"," ","1">>,
       <<"r","e","t","u","r","n"," ","v","i","6","4">>,
       <<"2">>,
       <<"l","e","t"," ","n"," ","="," ","2">>,
       <<"v","i","6","4"," ","="," ","3">>,
       <<"p","0","(",")">> >>

RECURSIVE BodyText(_)
\* the bytes of the statements, each closed by its semicolon
BodyText(texts) ==
    IF texts = <<>> THEN <<>>
    ELSE Head(texts) \o <<";", " ">> \o BodyText(Tail(texts))

BodySource(texts) == <<"{", " ">> \o BodyText(texts) \o <<"}">>

BodySources ==
    UNION { { BodySource([i \in 1..n |-> StatementTexts[pick[i]]]) :
                pick \in [1..n -> 1..Len(StatementTexts)] } :
            n \in 1..MaxStatements }

\* the symbol table in the body: the parameters, and the functions f0 and p0
BodySymbols ==
    [name \in { VarName(ValueTypes[i]) : i \in 1..Len(ValueTypes) }
                 \cup {Callee(0), Procedure} |->
        IF name = Procedure THEN VOID
        ELSE IF name = Callee(0) THEN I64
        ELSE ValueTypes[CHOOSE i \in 1..Len(ValueTypes) : VarName(ValueTypes[i]) = name]]

InitBody ==
    /\ input \in BodySources
    /\ NewLexer
    /\ NoCalls
    /\ type_map = BodySymbols
    /\ SetGenerator(LowerGenerator)
    /\ ast = <<>>
    /\ builder = LowerBuilder
    /\ report = NoReport
    /\ status = "lowering"

\* self.block(prototype.return_type) of Parser::definition
CallBlock ==
    /\ report.op = "none"
    /\ \E r \in {self_block(Parser, VOID)} :
       /\ SetParser(r.P)
       /\ ast' = IF r.res.ok THEN <<r.res.val>> ELSE <<>>
       /\ report' = [op |-> "block", res |-> Outcome(r.res)]
    /\ UNCHANGED <<input, obsVars, genVars, builder, status>>

\* generator.expr(&function.body) of Generator::function
LowerBody ==
    /\ report.op = "block"
    /\ report.res.ok
    /\ \E r \in {gen_expr(builder, ast[1])} :
       /\ builder' = r.FG
       /\ variable_builder' = r.FG.index
       /\ report' = [op |-> "lower", res |-> Outcome(r.res)]
    /\ UNCHANGED <<lexVars, obsVars, type_map, functions, module, ast, status>>

NextBody == CallBlock \/ LowerBody

SpecBody == InitBody /\ [][NextBody]_vars

\* the position of the first Return statement of a block, 0 when it has none
FirstReturn(exprs) ==
    IF \E i \in 1..Len(exprs) : exprs[i].kind = "Return"
    THEN CHOOSE i \in 1..Len(exprs) :
            /\ exprs[i].kind = "Return"
            /\ \A j \in 1..(i - 1) : exprs[j].kind # "Return"
    ELSE 0

RECURSIVE InOrder(_, _)
\* the builder after the statements are lowered one after the other
InOrder(FG, exprs) ==
    IF exprs = <<>> THEN FG
    ELSE InOrder(gen_expr(FG, Head(exprs)).FG, Tail(exprs))

\* what the claim says a body emits: its statements up to the first Return,
\* or all of them and a return of nothing
ExpectedBody(exprs) ==
    IF FirstReturn(exprs) = 0
    THEN Emit(InOrder(LowerBuilder, exprs), "return", "", <<>>).ins
    ELSE InOrder(LowerBuilder, SubSeq(exprs, 1, FirstReturn(exprs))).ins

\* C22: a function body Block whose lowering succeeds has emitted exactly one
\* return instruction, the last instruction: the statements are lowered in
\* order up to the first Return statement and nothing is emitted for the
\* statements after it; a block with no Return statement ends with one return
\* of no operands
C22_OneReturnLast ==
    (report.op = "lower" /\ report.res.ok) =>
        /\ Emitted("return") = {Len(builder.ins)}
        /\ builder.ins = ExpectedBody(ast[1].args[1])
        /\ FirstReturn(ast[1].args[1]) = 0 =>
              builder.ins[Len(builder.ins)] = Ins("return", "", <<>>)

\* a body with statements after its first Return has been lowered
C22_Witness ==
    /\ report.op = "lower"
    /\ report.res.ok
    /\ FirstReturn(ast[1].args[1]) \in 1..(Len(ast[1].args[1]) - 1)

-----------------------------------------------------------------------------
(* Claims about the scope of variables *)

\* C23: a variable declared by `let` is local to its function in the parser:
\* after the driver has accepted `fn f() { let x = 1; }`, the definition
\* `fn g() { let x = 2; }` is not rejected with VariableRedef, and the
\* definition `fn g() { x; }` is rejected by the parser, x being an undefined
\* identifier
C23_LetIsLocal ==
    [][(/\ report.op = "definition"
        /\ report.res.ok
        /\ ast[1].prototype.function_name = <<"f">>) =>
          /\ input = Join(<<ItemLetX, ItemLetXToo>>) =>
                ~IsError(report'.res, "VariableRedef")
          /\ input = Join(<<ItemLetX, ItemUseX>>) =>
                /\ IsError(report'.res, "Undefined")
                /\ report'.res.err.val = <<"identifier", <<"x">>>>]_vars

-----------------------------------------------------------------------------
(* Claims about the two tables of functions *)

\* C24: parser and generator agree on the known functions: after the driver
\* has finished an item that declares or defines a name, accepted or rejected,
\* the name is in the generator's function table if the parser's symbol table
\* holds it, and no item fails in the generator with Undefined("function ..")
\* for a call that the parser accepted
C24_TablesAgree ==
    [][/\ (NameAhead # <<>> /\ NameAhead[1] \in DOMAIN type_map') =>
             NameAhead[1] \in DOMAIN functions'
       /\ ~(/\ IsError(report'.res, "Undefined")
            /\ report'.res.err.val[1] = "function")]_vars

=============================================================================
